---------------------------- MODULE Spec2Model ----------------------------
(***************************************************************************)
(* Amazon connector: the day-by-day ingestion pipeline.                    *)
(*                                                                         *)
(*   - the controller task process_marketplaces and the per-day task       *)
(*     fetch_orders_for_marketplace                    (api/tasks.py)      *)
(*   - the fetch endpoint FetchAmazonDataView.post and its Activities      *)
(*     ledger                                (api/views.py, api/models.py) *)
(*   - the two-sink writer save_simple            (api/simple_db_save.py)  *)
(*                                                                         *)
(* Instants are whole seconds counted from 00:00:00Z of the seed day       *)
(* (2023-11-01), so the seed 2023-11-01T23:59:59Z is 86399.                *)
(*                                                                         *)
(* Two specifications share the state: Spec, the pipeline, where a request *)
(* runs save_simple in one step, and SpecWriter, runs of save_simple on    *)
(* their own, one database round trip per step.                            *)
(*                                                                         *)
(* Left out: the anomaly repair of fix_purchase_date.py, failures of the   *)
(* Activities and marketplace_last_run database itself, an empty           *)
(* marketplace_last_run table, and the delays between controller runs.     *)
(***************************************************************************)
EXTENDS Integers, Sequences, FiniteSets, Bags, TLC

(***************************************************************************)
(* Bounds of the model.                                                    *)
(***************************************************************************)
\* END_DATE is EndDay days after the seed day (the code: 2025-12-31).
EndDay == 2
\* Celery task slots: how many day-fetch tasks the controller may dispatch.
MaxTasks == 2
\* Requests the fetch endpoint may serve (automatic and manual together).
MaxReqs == 3
\* Events from outside in one behaviour: external (cron / operator) starts of
\* the controller, manual requests to the fetch endpoint, and failures of the
\* token service, the HTTP call or the SP-API.
MaxEvents == 2
\* Writer runs of the stand-alone writer specification.
MaxWriters == 2
\* Longest frame handed to a stand-alone writer run.
MaxRows == 2
\* acquire calls on one rate limiter beyond its burst limit.
ExtraAcquires == 2
\* Idle periods of a rate limiter, and the length of one in milliseconds.
MaxTicks == 2
TickMs == 1000
\* Idle periods of the circuit breaker, and the length of one in milliseconds.
MaxBreakerTicks == 4
BreakerTickMs == 200000
\* Batches of one item fetch.
MaxBatches == 11
\* Pool workers of one run, and the calls of make_rate_limited_request they make.
MaxFetchWorkers == 2
MaxCalls == 3
\* Idle periods between the workers' steps, and the length of one in milliseconds.
MaxTokenTicks == 3
TokenTickMs == 15000

(***************************************************************************)
(* Program constants.                                                      *)
(***************************************************************************)
SecondsPerDay == 86400
\* SEED_START_LAST_RUN = 2023-11-01 23:59:59Z
SEED_START_LAST_RUN == 86399
\* self.retry(..., max_retries=5) of fetch_orders_for_marketplace
TASK_MAX_RETRIES == 5
\* _to_sql_with_retries(..., max_retries=3)
TO_SQL_MAX_RETRIES == 3
\* "Please limit date range to 30 days maximum"
MAX_RANGE_DAYS == 30

\* marketplace_last_run.last_run IS NULL
NoLastRun == -1

UK == "A1F83G8C2ARO7P"
IT == "APJ6JRA9NG5V4"
\* a marketplace id that is in no table of the program
Unsupported == "AXXXXXXXXXXXXX"

\* The rows of marketplace_last_run.
Marketplaces == {UK, IT}

END_DATE == EndDay * SecondsPerDay + (SecondsPerDay - 1)

(***************************************************************************)
(* Dates and day windows (tasks.py).                                       *)
(***************************************************************************)
DateOf(t) == t \div SecondsPerDay

\* datetime.combine(date, time(h, m, s))
Combine(date, tod) == date * SecondsPerDay + tod

\* dt.isoformat().replace("+00:00", "Z"): the text "YYYY-MM-DDTHH:MM:SSZ",
\* kept as its date and time-of-day fields.
IsoFormat(t) == [date |-> DateOf(t), tod |-> t % SecondsPerDay]

\* _parse_iso_utc
ParseIsoUtc(iso) == Combine(iso.date, iso.tod)

\* _parse_last_run(last_run) or SEED_START_LAST_RUN
ParseLastRunOrSeed(last_run) ==
    IF last_run = NoLastRun THEN SEED_START_LAST_RUN ELSE last_run

DayWindowAfter(last_run) ==
    LET lr == ParseLastRunOrSeed(last_run)
        next_day_date == DateOf(lr) + 1
    IN  [start |-> Combine(next_day_date, 0),
         end   |-> Combine(next_day_date, SecondsPerDay - 1)]

WithinEndDate(start_dt) == DateOf(start_dt) <= DateOf(END_DATE)

(***************************************************************************)
(* The two-sink writer (simple_db_save.py).                                *)
(*                                                                         *)
(* A frame is [cols, rows]: cols says whether the frame carries its two    *)
(* natural-key columns, rows is the sequence of the rows' natural keys     *)
(* <<AmazonOrderId, OrderItemId>> (MSSQL) or <<OrderId, SKU>> (Azure).     *)
(* A sink table is a bag of stored keys: key -> number of stored rows.     *)
(***************************************************************************)
\* A missing OrderItemId is NaN in the frame, NULL in the table and None in
\* the rows a SELECT returns.
NaN == "NaN"
NULL == "NULL"
None == "None"

\* to_sql writes NaN as NULL
ToDb(v) == IF v = NaN THEN NULL ELSE v

\* the driver returns NULL as None
FromDb(v) == IF v = NULL THEN None ELSE v

EmptyTable == << >>

Stored(table, key) == IF key \in DOMAIN table THEN table[key] ELSE 0

InsertRow(table, key) ==
    IF key \in DOMAIN table
    THEN [table EXCEPT ![key] = @ + 1]
    ELSE table @@ (key :> 1)

\* df.to_sql(name=table_name, if_exists='append'): one row per frame row
RECURSIVE ToSql(_, _)
ToSql(table, rows) ==
    IF rows = << >> THEN table
    ELSE ToSql(InsertRow(table, <<Head(rows)[1], ToDb(Head(rows)[2])>>), Tail(rows))

\* df.drop_duplicates(subset=[key columns], keep='first')
RECURSIVE DropDuplicates(_)
DropDuplicates(rows) ==
    IF rows = << >> THEN << >>
    ELSE LET n == Len(rows)
             front == SubSeq(rows, 1, n - 1)
         IN  IF \E j \in 1..(n - 1) : rows[j] = rows[n]
             THEN DropDuplicates(front)
             ELSE Append(DropDuplicates(front), rows[n])

\* df_clean[<order id column>].unique()
UniqueOrderIds(rows) == {rows[i][1] : i \in 1..Len(rows)}

\* SELECT DISTINCT <key columns> FROM table WHERE <order id> IN (order_ids)
ExistingCombinations(table, order_ids) ==
    {<<k[1], FromDb(k[2])>> : k \in {x \in DOMAIN table : x[1] \in order_ids}}

\* df_clean[~df_clean['_temp_key'].isin(existing_combinations)]
FilterExisting(rows, existing) == SelectSeq(rows, LAMBDA r : r \notin existing)

NoResult == [present |-> FALSE, success |-> FALSE,
             records_saved |-> 0, records_skipped |-> 0]

FailedResult == [present |-> TRUE, success |-> FALSE,
                 records_saved |-> 0, records_skipped |-> 0]

AllExistResult(original_count) ==
    [present |-> TRUE, success |-> TRUE,
     records_saved |-> 0, records_skipped |-> original_count]

SavedResult(saved, original_count) ==
    [present |-> TRUE, success |-> TRUE,
     records_saved |-> saved, records_skipped |-> original_count - saved]

\* SinkDedup without the abort of the sink: a failed existing-keys query is
\* recorded and the de-duplicated frame goes on to the append.
SinkDedup_AppendAfterFailedQuery(df, table, queryOk) ==
    IF ~df.cols
    THEN [df_clean |-> << >>, result |-> FailedResult, error |-> "columns_missing"]
    ELSE IF ~queryOk
         THEN [df_clean |-> DropDuplicates(df.rows), result |-> FailedResult,
               error |-> "dedup_failed"]
         ELSE LET deduped == DropDuplicates(df.rows)
                  existing == ExistingCombinations(table, UniqueOrderIds(deduped))
                  filtered == IF existing # {}
                              THEN FilterExisting(deduped, existing)
                              ELSE deduped
              IN  IF existing # {} /\ Len(filtered) = 0
                  THEN [df_clean |-> << >>,
                        result |-> AllExistResult(Len(df.rows)), error |-> ""]
                  ELSE [df_clean |-> filtered, result |-> NoResult, error |-> ""]

\* The safety check, the intra-frame dedup, the existing-keys query and the
\* filter of one sink.  queryOk: the SELECT did not raise.
SinkDedup(df, table, queryOk) ==
    LET original_count == Len(df.rows) IN
    IF ~df.cols
    THEN [df_clean |-> << >>, result |-> FailedResult, error |-> "columns_missing"]
    ELSE LET deduped == DropDuplicates(df.rows)
             order_ids == UniqueOrderIds(deduped)
         IN  IF ~queryOk
             THEN [df_clean |-> << >>, result |-> FailedResult, error |-> "dedup_failed"]
             ELSE LET existing == ExistingCombinations(table, order_ids)
                      filtered == IF existing # {}
                                  THEN FilterExisting(deduped, existing)
                                  ELSE deduped
                  IN  IF existing # {} /\ Len(filtered) = 0
                      THEN [df_clean |-> << >>,
                            result |-> AllExistResult(original_count), error |-> ""]
                      ELSE [df_clean |-> filtered, result |-> NoResult, error |-> ""]

\* _to_sql_with_retries that never gives up: the append counts as done
\* whatever its attempts did.
ToSqlWithRetries_NeverRaises(nFail) ==
    [ok       |-> TRUE,
     attempts |-> IF nFail < TO_SQL_MAX_RETRIES THEN nFail + 1
                  ELSE TO_SQL_MAX_RETRIES]

\* _to_sql_with_retries: nFail attempts raise before one succeeds.
ToSqlWithRetries(nFail) ==
    [ok       |-> nFail < TO_SQL_MAX_RETRIES,
     attempts |-> IF nFail < TO_SQL_MAX_RETRIES THEN nFail + 1
                  ELSE TO_SQL_MAX_RETRIES]

\* "Only proceed with save if we have records": the append of one sink and
\* the result it reports; prev is the result the dedup left.
SinkAppend(df_clean, original_count, prev, table, nFail) ==
    IF df_clean = << >>
    THEN [result |-> prev, table |-> table, saved |-> 0, error |-> ""]
    ELSE IF ToSqlWithRetries(nFail).ok
         THEN [result |-> SavedResult(Len(df_clean), original_count),
               table  |-> ToSql(table, df_clean),
               saved  |-> Len(df_clean), error |-> ""]
         ELSE [result |-> FailedResult, table |-> table, saved |-> 0,
               error |-> "save_failed"]

\* results['errors'].append(...)
AddError(errors, sink, error) ==
    IF error = "" THEN errors ELSE errors \cup {<<sink, error>>}

\* MARKETPLACE_TABLE_MAPPING.get(marketplace_id)
HasTable(marketplace_id) == marketplace_id \in Marketplaces

InitialResults ==
    [success |-> TRUE, mssql_result |-> NoResult, azure_result |-> NoResult,
     total_records_saved |-> 0, mssql_success |-> FALSE, azure_success |-> FALSE,
     errors |-> {}]

\* The local state of one run of save_simple.
WriterStart(marketplace_id, mssql_df, azure_df) ==
    [marketplace_id |-> marketplace_id, mssql_df |-> mssql_df, azure_df |-> azure_df,
     df_clean |-> << >>, original_count |-> 0, results |-> InitialResults]

MssqlDedupStep(ws, mssql, queryOk) ==
    IF HasTable(ws.marketplace_id) /\ ws.mssql_df.rows # << >>
    THEN LET d == SinkDedup(ws.mssql_df, mssql[ws.marketplace_id], queryOk)
         IN  [ws EXCEPT !.df_clean = d.df_clean,
                        !.original_count = Len(ws.mssql_df.rows),
                        !.results.mssql_result = d.result,
                        !.results.mssql_success = d.result.success,
                        !.results.errors = AddError(@, "mssql", d.error)]
    ELSE [ws EXCEPT !.df_clean = << >>, !.results.mssql_success = FALSE]

MssqlAppendStep(ws, mssql, nFail) ==
    IF HasTable(ws.marketplace_id) /\ ws.mssql_df.rows # << >>
    THEN LET a == SinkAppend(ws.df_clean, ws.original_count,
                             ws.results.mssql_result,
                             mssql[ws.marketplace_id], nFail)
         IN  [ws |-> [ws EXCEPT !.results.mssql_result = a.result,
                                !.results.mssql_success = a.result.success,
                                !.results.total_records_saved = @ + a.saved,
                                !.results.errors = AddError(@, "mssql", a.error)],
              table |-> [mssql EXCEPT ![ws.marketplace_id] = a.table]]
    ELSE [ws |-> ws, table |-> mssql]

\* AzureDedupStep made to depend on the MSSQL sink: a failed MSSQL sink
\* aborts the Azure sink as well.
AzureDedupStep_AbortAfterMssqlFailure(ws, azure, queryOk) ==
    IF ws.azure_df.rows # << >> /\ ~(ws.results.mssql_result.present /\ ~ws.results.mssql_success)
    THEN LET d == SinkDedup(ws.azure_df, azure, queryOk)
         IN  [ws EXCEPT !.df_clean = d.df_clean,
                        !.original_count = Len(ws.azure_df.rows),
                        !.results.azure_result = d.result,
                        !.results.azure_success = d.result.success,
                        !.results.errors = AddError(@, "azure", d.error)]
    ELSE [ws EXCEPT !.df_clean = << >>, !.results.azure_success = FALSE]

AzureDedupStep(ws, azure, queryOk) ==
    IF ws.azure_df.rows # << >>
    THEN LET d == SinkDedup(ws.azure_df, azure, queryOk)
         IN  [ws EXCEPT !.df_clean = d.df_clean,
                        !.original_count = Len(ws.azure_df.rows),
                        !.results.azure_result = d.result,
                        !.results.azure_success = d.result.success,
                        !.results.errors = AddError(@, "azure", d.error)]
    ELSE [ws EXCEPT !.df_clean = << >>, !.results.azure_success = FALSE]

AzureAppendStep(ws, azure, nFail) ==
    IF ws.azure_df.rows # << >>
    THEN LET a == SinkAppend(ws.df_clean, ws.original_count,
                             ws.results.azure_result, azure, nFail)
         IN  [ws |-> [ws EXCEPT !.results.azure_result = a.result,
                                !.results.azure_success = a.result.success,
                                !.results.total_records_saved = @ + a.saved,
                                !.results.errors = AddError(@, "azure", a.error)],
              table |-> a.table]
    ELSE [ws |-> ws, table |-> azure]

\* The dict of the outer "except Exception": the run raised outside the
\* per-sink handlers.
RaisedResults ==
    [success |-> FALSE, mssql_result |-> NoResult, azure_result |-> NoResult,
     total_records_saved |-> 0, mssql_success |-> FALSE, azure_success |-> FALSE,
     errors |-> {<<"save_simple", "raised">>}]

\* "Success if at least one database save succeeded", then the summary:
\* results.get('mssql_result', {}).get('records_saved', 0) is None.get(...)
\* when a sink was skipped (its result is still None), which raises into the
\* outer handler.
Finalize(results) ==
    IF ~results.mssql_result.present \/ ~results.azure_result.present
    THEN RaisedResults
    ELSE [results EXCEPT !.success = results.mssql_success \/ results.azure_success]

\* What the environment does to one run: whether each existing-keys query
\* answers, and how many append attempts of each sink raise.
SinkFaults ==
    [mq : BOOLEAN, mf : 0..TO_SQL_MAX_RETRIES, aq : BOOLEAN, af : 0..TO_SQL_MAX_RETRIES]

NoFaults == [mq |-> TRUE, mf |-> 0, aq |-> TRUE, af |-> 0]

\* The faults that differ in what a whole run reports: per sink, the query
\* raises, or the append fails on every attempt, or neither.
PipelineFaults ==
    {e \in SinkFaults : /\ e.mf \in {0, TO_SQL_MAX_RETRIES}
                        /\ e.af \in {0, TO_SQL_MAX_RETRIES}
                        /\ ~e.mq => e.mf = 0
                        /\ ~e.aq => e.af = 0}

\* save_simple run from start to end with no other writer in between.
SaveSimple(marketplace_id, mssql_df, azure_df, mssql, azure, env) ==
    LET s0 == WriterStart(marketplace_id, mssql_df, azure_df)
        s1 == MssqlDedupStep(s0, mssql, env.mq)
        a1 == MssqlAppendStep(s1, mssql, env.mf)
        s2 == AzureDedupStep(a1.ws, azure, env.aq)
        a2 == AzureAppendStep(s2, azure, env.af)
    IN  [results |-> Finalize(a2.ws.results), mssql |-> a1.table, azure |-> a2.table]

(***************************************************************************)
(* State.                                                                  *)
(***************************************************************************)
(***************************************************************************)
(* The rate limiter (views.py, EnhancedTokenBucketRateLimiter).  Time is   *)
(* in milliseconds and a token is TokenUnit units, which makes the rates   *)
(* of 0.0167 and 0.5 requests per second whole numbers of units per        *)
(* millisecond.                                                            *)
(***************************************************************************)
TokenUnit == 10000000
ORDERS_MAX_REQUESTS_PER_SECOND == 167
ORDER_ITEMS_MAX_REQUESTS_PER_SECOND == 5000
ORDERS_BURST_LIMIT == 20
ORDER_ITEMS_BURST_LIMIT == 30

Priorities == {"high", "normal", "low"}

Min(a, b) == IF a <= b THEN a ELSE b

\* a / b, rounded up to the next millisecond
CeilDiv(a, b) == (a + b - 1) \div b

\* EnhancedTokenBucketRateLimiter.__init__
NewLimiter(rate_limit, burst_limit, now) ==
    [rate_limit |-> rate_limit, burst_limit |-> burst_limit,
     tokens |-> burst_limit * TokenUnit, last_update |-> now]

\* self.orders_rate_limiter and self.order_items_rate_limiter
OrdersRateLimiter(now) ==
    NewLimiter(ORDERS_MAX_REQUESTS_PER_SECOND, ORDERS_BURST_LIMIT, now)

OrderItemsRateLimiter(now) ==
    NewLimiter(ORDER_ITEMS_MAX_REQUESTS_PER_SECOND, ORDER_ITEMS_BURST_LIMIT, now)

\* the wait of a throttled caller, adjusted by its priority
WaitTime(tokens, rate_limit, priority) ==
    LET base_wait_time == CeilDiv(TokenUnit - tokens, rate_limit)
    IN  IF priority = "high" THEN CeilDiv(base_wait_time * 9, 10)
        ELSE IF priority = "low" THEN CeilDiv(base_wait_time * 12, 10)
        ELSE base_wait_time

\* acquire, under the lock: the bucket it leaves and the time it slept.
\* last_update is the time before the sleep.
acquire(l, now, priority) ==
    LET tokens == Min(l.burst_limit * TokenUnit,
                      l.tokens + (now - l.last_update) * l.rate_limit)
    IN  IF tokens < TokenUnit
        THEN [limiter |-> [l EXCEPT !.tokens = 0, !.last_update = now],
              wait_time |-> WaitTime(tokens, l.rate_limit, priority)]
        ELSE [limiter |-> [l EXCEPT !.tokens = tokens - TokenUnit,
                                    !.last_update = now],
              wait_time |-> 0]

(***************************************************************************)
(* The circuit breaker (views.py, CircuitBreaker) and the item fetch it    *)
(* guards (fetch_order_items_batch).                                       *)
(***************************************************************************)
CIRCUIT_BREAKER_FAILURE_THRESHOLD == 10
CIRCUIT_BREAKER_RECOVERY_TIMEOUT == 300
INITIAL_BATCH_SIZE == 10
MIN_BATCH_SIZE == 1
MAX_BATCH_SIZE == 30
\* last_failure_time = None
NoFailureTime == -1

\* CircuitBreaker.__init__
NewCircuitBreaker ==
    [state |-> "CLOSED", failure_count |-> 0, last_failure_time |-> NoFailureTime]

\* The head of call without the recovery timeout: an OPEN breaker lets
\* every call through as a trial.
BreakerAdmit_AnyTime(b, now) ==
    IF b.state = "OPEN"
    THEN [breaker |-> [b EXCEPT !.state = "HALF_OPEN"], refused |-> FALSE]
    ELSE [breaker |-> b, refused |-> FALSE]

\* the head of call: an OPEN breaker turns HALF_OPEN once the recovery
\* timeout has passed and refuses the call before that
BreakerAdmit(b, now) ==
    IF b.state = "OPEN"
    THEN IF /\ b.last_failure_time # NoFailureTime
            /\ now - b.last_failure_time > CIRCUIT_BREAKER_RECOVERY_TIMEOUT * 1000
         THEN [breaker |-> [b EXCEPT !.state = "HALF_OPEN"], refused |-> FALSE]
         ELSE [breaker |-> b, refused |-> TRUE]
    ELSE [breaker |-> b, refused |-> FALSE]

\* the protected function returned
BreakerSuccess(b) ==
    IF b.state = "HALF_OPEN"
    THEN [b EXCEPT !.state = "CLOSED", !.failure_count = 0]
    ELSE b

\* the protected function raised
BreakerFailure(b, now) ==
    LET failure_count == b.failure_count + 1
    IN  [b EXCEPT !.failure_count = failure_count,
                  !.last_failure_time = now,
                  !.state = IF failure_count >= CIRCUIT_BREAKER_FAILURE_THRESHOLD
                            THEN "OPEN" ELSE @]

\* call(func), where raises tells whether func raises
call(b, now, raises) ==
    LET admit == BreakerAdmit(b, now)
    IN  IF admit.refused THEN [breaker |-> b, raised |-> TRUE]
        ELSE IF raises THEN [breaker |-> BreakerFailure(admit.breaker, now),
                             raised |-> TRUE]
        ELSE [breaker |-> BreakerSuccess(admit.breaker), raised |-> FALSE]

\* make_rate_limited_request: the status codes it raises for
RequestRaises(status_code) == status_code \in {401, 403, 429, 503, 500}

\* fetch_single_order_items: every failure, an exception of
\* make_rate_limited_request included, becomes a result
FetchSingleOrderItems(status_code) ==
    [success |-> ~RequestRaises(status_code) /\ status_code = 200,
     raised |-> FALSE]

\* fetch_single_order_items_with_retry: a result is returned as it is
FetchSingleOrderItemsWithRetry(status_code) ==
    LET result == FetchSingleOrderItems(status_code)
    IN  IF result.raised THEN [success |-> FALSE, raised |-> FALSE] ELSE result

\* _process_order_items_batch for the status codes of the batch's orders
ProcessOrderItemsBatch(statuses) ==
    LET results == [i \in DOMAIN statuses |-> FetchSingleOrderItemsWithRetry(statuses[i])]
    IN  [items |-> Cardinality({i \in DOMAIN results : results[i].success}),
         failed_orders |-> Cardinality({i \in DOMAIN results : ~results[i].success}),
         raised |-> FALSE]

\* _update_batch_size_on_success
UpdateBatchSizeOnSuccess(f, batch_failures, batch_size) ==
    IF batch_failures * 10 < batch_size
    THEN IF f.consecutive_batch_successes + 1 >= 3 /\ f.current_batch_size < MAX_BATCH_SIZE
         THEN [f EXCEPT !.consecutive_batch_successes = 0,
                        !.consecutive_batch_failures = 0,
                        !.current_batch_size = Min(@ + 1, MAX_BATCH_SIZE)]
         ELSE [f EXCEPT !.consecutive_batch_successes = @ + 1,
                        !.consecutive_batch_failures = 0]
    ELSE [f EXCEPT !.consecutive_batch_successes = 0]

\* _update_batch_size_on_failure without the floor at MIN_BATCH_SIZE
UpdateBatchSizeOnFailure_NoFloor(f) ==
    IF f.consecutive_batch_failures + 1 >= 2
    THEN [f EXCEPT !.consecutive_batch_failures = @ + 1,
                   !.consecutive_batch_successes = 0,
                   !.current_batch_size = @ - 1]
    ELSE [f EXCEPT !.consecutive_batch_failures = @ + 1,
                   !.consecutive_batch_successes = 0]

\* _update_batch_size_on_failure
UpdateBatchSizeOnFailure(f) ==
    IF f.consecutive_batch_failures + 1 >= 2 /\ f.current_batch_size > MIN_BATCH_SIZE
    THEN [f EXCEPT !.consecutive_batch_failures = @ + 1,
                   !.consecutive_batch_successes = 0,
                   !.current_batch_size = IF @ - 1 >= MIN_BATCH_SIZE THEN @ - 1
                                          ELSE MIN_BATCH_SIZE]
    ELSE [f EXCEPT !.consecutive_batch_failures = @ + 1,
                   !.consecutive_batch_successes = 0]

\* the item fetch of a view that has fetched nothing
NewItemFetch ==
    [batches |-> 0, consecutive_rate_limits |-> 0,
     current_batch_size |-> INITIAL_BATCH_SIZE,
     consecutive_batch_successes |-> 0, consecutive_batch_failures |-> 0,
     failed_orders |-> 0, throttled_batches |-> 0]

(***************************************************************************)
(* The token refresh (views.py, make_rate_limited_request and              *)
(* _refresh_token_and_retry) and the credentials file creds.json.          *)
(***************************************************************************)
TOKEN_REFRESH_COOLDOWN == 30

\* creds.json holding the n-th access token with its own expiry
Creds(n) == [access_token |-> n, expires_at |-> n]

\* creds.json between open(creds_file_path, 'w') and the end of json.dump
EmptyFile == [access_token |-> -1, expires_at |-> -1]

\* json.load of creds.json and creds_data.get('access_token')
ReadCreds(file) ==
    IF file = EmptyFile THEN [ok |-> FALSE, access_token |-> -1]
    ELSE [ok |-> TRUE, access_token |-> file.access_token]

\* current_time - self.last_token_refresh_time < self.token_refresh_cooldown
RecentlyRefreshed_Never(current_time, last) == FALSE
RecentlyRefreshed(current_time, last) ==
    current_time - last < TOKEN_REFRESH_COOLDOWN * 1000

\* allow_token_refresh of the retried call
RetryAllowsRefresh_Again == TRUE
RetryAllowsRefresh == FALSE

\* a pool worker between two calls of make_rate_limited_request
IdleWorker ==
    [pc |-> "idle", allow_token_refresh |-> TRUE, current_time |-> 0,
     http_calls |-> 0, refreshes |-> 0, access_token |-> 0,
     outcome |-> "none", read |-> Creds(0)]

VARIABLES
    lastRun,      \* marketplace_last_run: marketplace_id -> last_run
    activities,   \* the Activities table: window key -> rows in creation order
    mssql,        \* the MSSQL tables amazon_api_*: marketplace_id -> bag of keys
    azure,        \* the Azure table stg_tr_amazon_raw: bag of keys
    ctlPending,   \* queued invocations of process_marketplaces
    tasks,        \* the fetch_orders_for_marketplace tasks
    reqs,         \* the requests at /api/fetch-data/
    triggers,     \* external controller invocations so far
    manuals,      \* manual fetch requests so far
    faults,       \* failures of the token service, the HTTP call or the SP-API so far
    writers,      \* stand-alone runs of save_simple
    clock,        \* time.time(), in milliseconds
    limiter,      \* one EnhancedTokenBucketRateLimiter
    released,     \* the times at which acquire returned
    breaker,      \* the view's CircuitBreaker
    inCall,       \* a protected function is running under the breaker's lock
    streak,       \* protected calls that have failed in a row
    fetch,        \* fetch_order_items_batch: its counters
    workers,      \* the pool workers in make_rate_limited_request
    calls,        \* calls of make_rate_limited_request so far
    credsFile,    \* the content of creds.json
    tokenLock,    \* token_refresh_lock: the worker that holds it, or 0
    last_token_refresh_time,
    posts,        \* the POSTs to the LWA token endpoint: time and answer
    records,      \* the marketplaces with a row in marketplace_last_run
    ctlStatus,    \* the status process_marketplaces returned last
    purchaseRows, \* amazon_api_*: marketplace -> the date columns of its rows
    rawRows,      \* stg_tr_amazon_raw: region -> the date columns of its rows
    fix,          \* one run of FixPurchaseDate.post
    priceCell,    \* one cell of a pricing column and what it was split into
    vatRow,       \* one merged row and its VAT columns
    itemRun,      \* one run of fetch_order_items_batch over its orders
    retryRound,   \* _retry_failed_orders: the round in progress, if any
    ordersReq,    \* fetch_all_orders: the request of the page being fetched
    appendRun,    \* the append of one sink in save_simple, attempt by attempt
    getters,      \* the tasks in get_access_token, one per credential group
    mintedFor     \* the credential group each access token was minted for

limiterVars == <<limiter, released>>

breakerVars == <<breaker, inCall, streak, fetch>>

tokenVars == <<workers, calls, credsFile, tokenLock, last_token_refresh_time, posts>>

WorkerIds == 1..MaxFetchWorkers

repairVars == <<purchaseRows, rawRows, fix>>

transformVars == <<priceCell, vatRow>>

itemVars == <<itemRun, retryRound, ordersReq, appendRun, getters, mintedFor>>

apiVars == <<clock, limiterVars, breakerVars, tokenVars, records, repairVars,
             transformVars, itemVars>>

vars == <<lastRun, activities, mssql, azure, ctlPending, tasks, reqs,
          triggers, manuals, faults, writers, apiVars, ctlStatus>>

pipelineVars == <<lastRun, activities, ctlPending, tasks, reqs,
                  triggers, manuals, faults, ctlStatus>>

Events == triggers + manuals + faults

TaskIds == 1..MaxTasks
ReqIds == 1..MaxReqs
WriterIds == 1..MaxWriters

NoIso == IsoFormat(0)
NoKey == <<"", 0, 0>>
NoAct == <<NoKey, 0>>

IdleTask == [pc |-> "unused", marketplace_id |-> "", start_iso |-> NoIso,
             end_iso |-> NoIso, retries |-> 0, req |-> 0,
             posts |-> 0, db_save |-> "none"]

IdleReq == [pc |-> "idle", marketplace_id |-> "", start_date |-> NoIso,
            end_date |-> NoIso, auto_save |-> FALSE, activity |-> NoAct,
            status_code |-> 0, task |-> 0, orders |-> 0, db_save |-> "none"]

IdleWriter == [pc |-> "idle", ws |-> WriterStart("", [cols |-> TRUE, rows |-> << >>],
                                                 [cols |-> TRUE, rows |-> << >>])]

\* last_run values the table may hold when the controller is first started
InitialLastRuns ==
    {NoLastRun, Combine(EndDay - 1, 43200)}

(***************************************************************************)
(* The tables FixPurchaseDate reads (fix_purchase_date.py): of a row of    *)
(* amazon_api_<mkt> the dates of PurchaseDate and PurchaseDate_conversion, *)
(* of a row of stg_tr_amazon_raw the dates of data_fetch_Date and          *)
(* CLEAN_DateTime.                                                         *)
(***************************************************************************)
\* fetchone()[0] of MAX(...) over no row: None
NoDate == 0

\* the marketplaces list of post, as far as the model has them
FixMarketplaces == <<UK, IT>>

\* what the run has logged and reported for one marketplace
NoFixLog == [outcome |-> "", error |-> "",
             max_purchase_date_mssql |-> NoDate, max_fetch_date_azure |-> NoDate,
             row_count_mssql |-> 0, row_count_azure |-> 0]

IdleFix == [pc |-> "idle", i |-> 1, status_code |-> 0,
            log |-> [m \in Marketplaces |-> NoFixLog]]

\* a cell of a raw pricing column is its text, character by character; a
\* cell without a value holds NaN
NaNCell == <<NaN>>

\* no raw price: the cell was not written as an amount
NoRawPrice == [negative |-> FALSE, units |-> 0,
               decimals |-> [text |-> << >>, cents |-> 0], form |-> "",
               currency |-> [text |-> << >>, code |-> ""]]

IdleCell == [value |-> NaNCell, raw |-> NoRawPrice, split |-> FALSE,
             Amount |-> 0, CurrencyCode |-> None]
IdleRow == [calculated |-> FALSE]

\* fetch_order_items_batch has not been called
IdleItemRun ==
    [phase |-> "idle", total_orders |-> 0, processed_orders |-> 0,
     all_items |-> {}, failed_orders |-> << >>, retry_items |-> {},
     remaining_failed |-> << >>, retried |-> 0, rounds |-> 0,
     last |-> [order |-> 0, answers |-> << >>, attempts |-> 0, success |-> FALSE]]

\* no retry round is in progress
NoRetryRound == [active |-> FALSE, original_batch_size |-> 0]

\* no time
NoTime == -1

\* fetch_all_orders has not been called
IdleOrdersReq ==
    [state |-> "idle", page |-> 0, attempt |-> 0, throttled_at |-> NoTime,
     retry_after |-> 0, issued_at |-> NoTime, not_before |-> 0]

\* no sink append has been started
IdleAppendRun ==
    [pc |-> "idle", df_clean |-> << >>, original_count |-> 0,
     total_before |-> 0, attempt |-> 0, events |-> << >>,
     result |-> NoResult, error |-> "", total_records_saved |-> 0,
     table |-> EmptyTable]

MaxGetters == 2

GetterIds == 1..MaxGetters

\* a task outside get_access_token
IdleGetter == [pc |-> "idle", minted |-> 0, access_token |-> 0]

InitItemsIdle ==
    /\ getters = [c \in GetterIds |-> IdleGetter]
    /\ mintedFor = << >>
    /\ itemRun = IdleItemRun
    /\ retryRound = NoRetryRound
    /\ ordersReq = IdleOrdersReq
    /\ appendRun = IdleAppendRun

\* the transformer has been given nothing
InitTransformIdle ==
    /\ priceCell = IdleCell
    /\ vatRow = IdleRow
    /\ InitItemsIdle

\* no repair has been asked for
InitRepairIdle ==
    /\ purchaseRows = [m \in Marketplaces |-> {}]
    /\ rawRows = [m \in Marketplaces |-> {}]
    /\ fix = IdleFix
    /\ InitTransformIdle

\* the rate limiters, the breaker and the token state of a view that has
\* served no request
InitApiObjects ==
    /\ clock = 0
    /\ limiter = OrdersRateLimiter(0)
    /\ released = << >>
    /\ breaker = NewCircuitBreaker
    /\ inCall = FALSE
    /\ streak = 0
    /\ fetch = NewItemFetch
    /\ workers = [w \in WorkerIds |-> IdleWorker]
    /\ calls = 0
    /\ credsFile = Creds(0)
    /\ tokenLock = 0
    /\ last_token_refresh_time = 0
    /\ posts = << >>
    /\ InitRepairIdle

\* the same, with a row for every marketplace in marketplace_last_run
InitApi ==
    /\ InitApiObjects
    /\ records = Marketplaces

Init ==
    /\ InitApi
    /\ lastRun \in [Marketplaces -> InitialLastRuns]
    /\ activities = << >>
    /\ mssql = [m \in Marketplaces |-> EmptyTable]
    /\ azure = EmptyTable
    /\ ctlPending = 0
    /\ ctlStatus = "none"
    /\ tasks = [t \in TaskIds |-> IdleTask]
    /\ reqs = [r \in ReqIds |-> IdleReq]
    /\ triggers = 0
    /\ manuals = 0
    /\ faults = 0
    /\ writers = [w \in WriterIds |-> IdleWriter]

(***************************************************************************)
(* The controller (tasks.py, process_marketplaces).                        *)
(***************************************************************************)
\* sort order of the marketplace ids as strings
Rank(marketplace_id) == IF marketplace_id = UK THEN 1 ELSE 2

\* candidates.append(...) for the eligible records
Candidates ==
    {m \in records : WithinEndDate(DayWindowAfter(lastRun[m]).start)}

\* candidates.sort(key=lambda x: (x[0], x[1])); candidates[0]
SortKeyLess_ById(a, b) == Rank(a) < Rank(b)
SortKeyLess(a, b) ==
    LET sa == DayWindowAfter(lastRun[a]).start
        sb == DayWindowAfter(lastRun[b]).start
    IN  sa < sb \/ (sa = sb /\ Rank(a) < Rank(b))

ChosenNext == CHOOSE m \in Candidates : \A o \in Candidates \ {m} : SortKeyLess(m, o)

\* A cron job or an operator starts the controller.
ExternalTrigger ==
    /\ Events < MaxEvents
    /\ triggers' = triggers + 1
    /\ ctlPending' = ctlPending + 1
    /\ UNCHANGED <<lastRun, activities, mssql, azure, tasks, reqs, manuals,
                   faults, writers,
                   apiVars, ctlStatus>>

\* One iteration that finds every marketplace past END_DATE: {"status": "completed"}.
ControllerCompleted ==
    /\ ctlPending > 0
    /\ records # {}
    /\ Candidates = {}
    /\ ctlPending' = ctlPending - 1
    /\ ctlStatus' = "completed"
    /\ UNCHANGED <<lastRun, activities, mssql, azure, tasks, reqs, triggers,
                   manuals, faults, writers, apiVars>>

\* One iteration that finds no record: the controller queues itself again
\* and returns {"status": "empty"}.
ControllerEmpty ==
    /\ ctlPending > 0
    /\ records = {}
    /\ ctlPending' = (ctlPending - 1) + 1
    /\ ctlStatus' = "empty"
    /\ UNCHANGED <<lastRun, activities, mssql, azure, tasks, reqs, triggers,
                   manuals, faults, writers, apiVars>>

\* One iteration that chains a single marketplace-day fetch and its own re-run.
ControllerDispatch ==
    /\ ctlPending > 0
    /\ Candidates # {}
    /\ \E t \in TaskIds :
         /\ tasks[t].pc = "unused"
         /\ \A u \in TaskIds : u < t => tasks[u].pc # "unused"
         /\ LET w == DayWindowAfter(lastRun[ChosenNext])
            IN  tasks' = [tasks EXCEPT ![t] =
                    [IdleTask EXCEPT !.pc = "queued",
                                     !.marketplace_id = ChosenNext,
                                     !.start_iso = IsoFormat(w.start),
                                     !.end_iso = IsoFormat(w.end)]]
    /\ ctlPending' = ctlPending - 1
    /\ ctlStatus' = "dispatched-one"
    /\ UNCHANGED <<lastRun, activities, mssql, azure, reqs, triggers, manuals,
                   faults, writers, apiVars>>

(***************************************************************************)
(* The day-fetch task (tasks.py, fetch_orders_for_marketplace).            *)
(***************************************************************************)
\* raise self.retry(exc=exc, max_retries=n): run again, or give up for good
TaskRetry(task, max_retries) ==
    IF task.retries < max_retries
    THEN [task EXCEPT !.pc = "queued", !.retries = @ + 1, !.req = 0]
    ELSE [task EXCEPT !.pc = "failed", !.req = 0]

\* get_access_token raises: the task is retried before it looked at last_run.
TaskTokenFault(t) ==
    /\ tasks[t].pc = "queued"
    /\ Events < MaxEvents
    /\ faults' = faults + 1
    /\ tasks' = [tasks EXCEPT ![t] = TaskRetry(@, TASK_MAX_RETRIES)]
    /\ UNCHANGED <<lastRun, activities, mssql, azure, ctlPending, reqs,
                   triggers, manuals, writers,
                   apiVars, ctlStatus>>

\* The sequence guard left out: every window passes.
SequenceGuardPasses_Always(task) == TRUE

\* "Idempotency and sequence guard": the window asked for is not the next one.
SequenceGuardPasses(task) ==
    ParseIsoUtc(task.start_iso) = DayWindowAfter(lastRun[task.marketplace_id]).start

TaskSkip(t) ==
    /\ tasks[t].pc = "queued"
    /\ ~SequenceGuardPasses(tasks[t])
    /\ tasks' = [tasks EXCEPT ![t].pc = "skipped"]
    /\ ctlPending' = ctlPending + 1
    /\ UNCHANGED <<lastRun, activities, mssql, azure, reqs, triggers, manuals,
                   faults, writers,
                   apiVars, ctlStatus>>

\* The guard passes: requests.post("/api/fetch-data/", auto_save=True).
TaskPost(t) ==
    /\ tasks[t].pc = "queued"
    /\ SequenceGuardPasses(tasks[t])
    /\ \E r \in ReqIds :
         /\ reqs[r].pc = "idle"
         /\ \A q \in ReqIds : q < r => reqs[q].pc # "idle"
         /\ reqs' = [reqs EXCEPT ![r] =
                [IdleReq EXCEPT !.pc = "sent",
                                !.marketplace_id = tasks[t].marketplace_id,
                                !.start_date = tasks[t].start_iso,
                                !.end_date = tasks[t].end_iso,
                                !.auto_save = TRUE,
                                !.task = t]]
         /\ tasks' = [tasks EXCEPT ![t].pc = "waiting", ![t].req = r,
                                   ![t].posts = @ + 1]
    /\ UNCHANGED <<lastRun, activities, mssql, azure, ctlPending, triggers,
                   manuals, faults, writers,
                   apiVars, ctlStatus>>

\* requests.exceptions.Timeout while the endpoint is still working: the task
\* is retried (max_retries=3) and the request goes on without a reader.
TIMEOUT_MAX_RETRIES == 3

TaskTimeout(t) ==
    /\ tasks[t].pc = "waiting"
    /\ reqs[tasks[t].req].pc \in {"sent", "fetching"}
    /\ Events < MaxEvents
    /\ faults' = faults + 1
    /\ reqs' = [reqs EXCEPT ![tasks[t].req].task = 0]
    /\ tasks' = [tasks EXCEPT ![t] = TaskRetry(@, TIMEOUT_MAX_RETRIES)]
    /\ UNCHANGED <<lastRun, activities, mssql, azure, ctlPending, triggers,
                   manuals, writers,
                   apiVars, ctlStatus>>

\* Is2xx taking every answer for a success.
Is2xx_AnyAnswer(status_code) == 200 <= status_code
Is2xx(status_code) == 200 <= status_code /\ status_code < 300

\* CompareAndAdvance without the comparison: every 2xx answer moves last_run
\* on by a day.
CompareAndAdvance_EveryAnswer(last_run, start_dt, end_dt) ==
    DayWindowAfter(last_run).end

\* CompareAndAdvance writing the start of the day in place of its end.
CompareAndAdvance_StartOfDay(last_run, start_dt, end_dt) ==
    IF DayWindowAfter(last_run).start # start_dt THEN last_run ELSE start_dt

\* "Persist last_run as end of the day, only if still expected"
CompareAndAdvance(last_run, start_dt, end_dt) ==
    IF DayWindowAfter(last_run).start # start_dt THEN last_run ELSE end_dt

\* The response arrived: advance last_run on 2xx, else raise and retry.
TaskFinish(t) ==
    /\ tasks[t].pc = "waiting"
    /\ reqs[tasks[t].req].pc = "done"
    /\ LET r == tasks[t].req
           m == tasks[t].marketplace_id
           seen == [tasks[t] EXCEPT !.db_save = reqs[r].db_save]
       IN  /\ reqs' = [reqs EXCEPT ![r] = IdleReq]
           /\ IF Is2xx(reqs[r].status_code)
              THEN /\ lastRun' = [lastRun EXCEPT ![m] =
                          CompareAndAdvance(@, ParseIsoUtc(tasks[t].start_iso),
                                            ParseIsoUtc(tasks[t].end_iso))]
                   /\ tasks' = [tasks EXCEPT ![t] = [seen EXCEPT !.pc = "ok", !.req = 0]]
                   /\ ctlPending' = ctlPending + 1
              ELSE /\ tasks' = [tasks EXCEPT ![t] = TaskRetry(seen, TASK_MAX_RETRIES)]
                   /\ UNCHANGED <<lastRun, ctlPending>>
    /\ UNCHANGED <<activities, mssql, azure, triggers, manuals, faults, writers,
                   apiVars, ctlStatus>>

(***************************************************************************)
(* The fetch endpoint (views.py, FetchAmazonDataView.post) and the         *)
(* Activities ledger (models.py).                                          *)
(***************************************************************************)
\* SP_API_BASE_URLS.get(marketplace_id)
HasBaseUrl(marketplace_id) == marketplace_id \in Marketplaces

\* convert_dates: the request's dates are read as local time of the
\* marketplace (Europe/London for UK, Europe/Paris for the EU ones) and
\* converted to UTC; the offsets are those of winter time.
UtcOffset(marketplace_id) == IF marketplace_id = UK THEN 0 ELSE 3600

ConvertDates(iso, marketplace_id) == ParseIsoUtc(iso) - UtcOffset(marketplace_id)

\* "Start date must be before end date", "limit date range to 30 days"
ValidRange(start_dt, end_dt) ==
    /\ start_dt < end_dt
    /\ (end_dt - start_dt) \div SecondsPerDay <= MAX_RANGE_DAYS

\* The fields of the unique constraint besides activity_type and status.
ActivityKey(marketplace_id, start_dt, end_dt) ==
    <<marketplace_id, DateOf(start_dt), DateOf(end_dt)>>

ActivityRows(acts, key) == IF key \in DOMAIN acts THEN acts[key] ELSE << >>

NewActivity == [status |-> "in_progress", database_saved |-> FALSE,
                error |-> FALSE, saves |-> 0]

\* Activities.objects.get_or_create(..., status='in_progress', defaults=...)
GetOrCreate(acts, key) ==
    LET rows == ActivityRows(acts, key) IN
    IF \E i \in 1..Len(rows) : rows[i].status = "in_progress"
    THEN [activity |-> <<key, CHOOSE i \in 1..Len(rows) : rows[i].status = "in_progress">>,
          created  |-> FALSE,
          acts     |-> acts]
    ELSE [activity |-> <<key, Len(rows) + 1>>,
          created  |-> TRUE,
          acts     |-> IF key \in DOMAIN acts
                       THEN [acts EXCEPT ![key] = Append(@, NewActivity)]
                       ELSE acts @@ (key :> <<NewActivity>>)]

ActivityRow(acts, ref) == acts[ref[1]][ref[2]]

\* activity.status = ...; activity.save()
SaveActivity(acts, ref, status, database_saved, error) ==
    [acts EXCEPT ![ref[1]][ref[2]] =
        [status |-> status, database_saved |-> database_saved,
         error |-> error, saves |-> @.saves + 1]]

\* An operator posts a fetch request for any marketplace id and window.
ManualRequest ==
    /\ Events < MaxEvents
    /\ manuals' = manuals + 1
    /\ \E r \in ReqIds, m \in {UK, Unsupported},
          sd \in 1..EndDay, ed \in 1..EndDay, as \in BOOLEAN :
         /\ reqs[r].pc = "idle"
         /\ \A q \in ReqIds : q < r => reqs[q].pc # "idle"
         /\ reqs' = [reqs EXCEPT ![r] =
                [IdleReq EXCEPT !.pc = "sent",
                                !.marketplace_id = m,
                                !.start_date = IsoFormat(Combine(sd, 0)),
                                !.end_date = IsoFormat(Combine(ed, SecondsPerDay - 1)),
                                !.auto_save = as]]
    /\ UNCHANGED <<lastRun, activities, mssql, azure, ctlPending, tasks,
                   triggers, faults, writers,
                   apiVars, ctlStatus>>

\* The response leaves the endpoint: a task's request waits for its task,
\* any other request is over.
Respond(req, status_code) ==
    IF req.task = 0 THEN IdleReq
    ELSE [req EXCEPT !.pc = "done", !.status_code = status_code]

\* post, up to the call of fetch_orders_with_items: validation, the Activity
\* record, the base URL.
PostStart(r) ==
    /\ reqs[r].pc = "sent"
    /\ LET m == reqs[r].marketplace_id
           start_dt == ConvertDates(reqs[r].start_date, m)
           end_dt == ConvertDates(reqs[r].end_date, m)
           got == GetOrCreate(activities, ActivityKey(m, start_dt, end_dt))
           held == [reqs[r] EXCEPT !.activity = got.activity]
       IN  IF ~ValidRange(start_dt, end_dt)
           THEN /\ reqs' = [reqs EXCEPT ![r] = Respond(@, 400)]
                /\ UNCHANGED activities
           ELSE /\ activities' = got.acts
                /\ IF ~HasBaseUrl(m)
                   THEN reqs' = [reqs EXCEPT ![r] = Respond(held, 400)]
                   ELSE reqs' = [reqs EXCEPT ![r] = [held EXCEPT !.pc = "fetching"]]
    /\ UNCHANGED <<lastRun, mssql, azure, ctlPending, tasks, triggers, manuals,
                   faults, writers,
                   apiVars, ctlStatus>>

\* What fetch_orders_with_items can come back with.  "failed": a result with
\* success False and the given status; "raised": an exception reaches the
\* handler at the end of post; "fetched": the day's orders and items.
FetchOutcomes ==
    [kind : {"failed"}, status_code : {429}, orders : {0}, items : {0},
     shipped : {FALSE}]
    \cup
    [kind : {"raised"}, status_code : {500}, orders : {0}, items : {0},
     shipped : {FALSE}]
    \cup
    [kind : {"fetched"}, status_code : {200}, orders : {0}, items : {0},
     shipped : {FALSE}]
    \cup
    [kind : {"fetched"}, status_code : {200}, orders : {1}, items : {0},
     shipped : {FALSE}]
    \cup
    [kind : {"fetched"}, status_code : {200}, orders : {1}, items : {1},
     shipped : BOOLEAN]

\* The one order of a marketplace-day.
OrderIdOf(marketplace_id, iso) == <<marketplace_id, iso.date>>

\* process_amazon_data: _prepare_dataframes raises when the orders frame has
\* no AmazonOrderId column (no order) or the items frame no order_id column
\* (no item).
ProcessingRaises(fetched) == fetched.orders = 0 \/ fetched.items = 0

\* The frames convert_to_databases_format makes of the one order item: one
\* MSSQL row, and one Azure row if the order is shipped.
MssqlFrame(order_id, fetched) ==
    [cols |-> TRUE, rows |-> << <<order_id, "item1">> >>]

AzureFrame(order_id, fetched) ==
    [cols |-> TRUE,
     rows |-> IF fetched.shipped THEN << <<order_id, "SKU1">> >> ELSE << >>]

\* "Update activity record with success": with auto_save and a processing
\* error, db_save_result is read before it was ever bound, the error is
\* swallowed and activity.save() is not reached.
SuccessActivityUpdate(acts, ref, auto_save, raised, save_success) ==
    IF auto_save /\ raised THEN acts
    ELSE SaveActivity(acts, ref, "completed", auto_save /\ save_success, FALSE)

\* post, from the return of fetch_orders_with_items to the response.
PostFailed(r, fetched) ==
    /\ Events < MaxEvents
    /\ faults' = faults + 1
    /\ activities' = SaveActivity(activities, reqs[r].activity, "failed",
                         ActivityRow(activities, reqs[r].activity).database_saved, TRUE)
    /\ reqs' = [reqs EXCEPT ![r] = Respond(@, fetched.status_code)]
    /\ UNCHANGED <<mssql, azure>>

PostFetched(r, fetched, env) ==
    LET req == reqs[r]
        oid == OrderIdOf(req.marketplace_id, req.start_date)
        raised == ProcessingRaises(fetched)
        saving == req.auto_save /\ ~raised
        save == SaveSimple(req.marketplace_id, MssqlFrame(oid, fetched),
                           AzureFrame(oid, fetched), mssql, azure, env)
    IN  /\ mssql' = IF saving THEN save.mssql ELSE mssql
        /\ azure' = IF saving THEN save.azure ELSE azure
        /\ activities' = SuccessActivityUpdate(activities, req.activity,
                             req.auto_save, raised, saving /\ save.results.success)
        /\ reqs' = [reqs EXCEPT ![r] =
              Respond([@ EXCEPT !.orders = fetched.orders,
                                !.db_save =
                          IF ~saving THEN "none"
                          ELSE IF save.results.success THEN "saved"
                          ELSE "failed"], 200)]
        /\ UNCHANGED faults

PostFinish(r) ==
    /\ reqs[r].pc = "fetching"
    /\ \E fetched \in FetchOutcomes :
         IF fetched.kind # "fetched"
         THEN PostFailed(r, fetched)
         ELSE IF reqs[r].auto_save /\ ~ProcessingRaises(fetched)
              THEN (\E env \in PipelineFaults : PostFetched(r, fetched, env))
              ELSE PostFetched(r, fetched, NoFaults)
    /\ UNCHANGED <<lastRun, ctlPending, tasks, triggers, manuals, writers,
                   apiVars, ctlStatus>>

Next ==
    \/ ExternalTrigger
    \/ ControllerCompleted
    \/ ControllerDispatch
    \/ \E t \in TaskIds : TaskTokenFault(t)
    \/ \E t \in TaskIds : TaskSkip(t)
    \/ \E t \in TaskIds : TaskPost(t)
    \/ \E t \in TaskIds : TaskTimeout(t)
    \/ \E t \in TaskIds : TaskFinish(t)
    \/ ManualRequest
    \/ \E r \in ReqIds : PostStart(r)
    \/ \E r \in ReqIds : PostFinish(r)

Spec == Init /\ [][Next]_vars

(***************************************************************************)
(* Runs of save_simple on their own, step by step: the requests of one     *)
(* marketplace are served by concurrent workers, and nothing in            *)
(* save_simple holds a lock or a transaction from the existing-keys query  *)
(* of a sink to its append.                                                *)
(***************************************************************************)
RECURSIVE SeqsUpTo(_, _)
SeqsUpTo(S, n) ==
    IF n = 0 THEN {<< >>}
    ELSE LET shorter == SeqsUpTo(S, n - 1)
         IN  shorter \cup {Append(s, x) : s \in {q \in shorter : Len(q) = n - 1}, x \in S}

MssqlKeys == {<<"o1", "item1">>, <<"o1", NaN>>}
AzureKeys == {<<"o1", "SKU1">>}

\* The frames handed to a run: any rows up to MaxRows, or a frame without
\* its key columns.
MssqlFrames ==
    {[cols |-> TRUE, rows |-> r] : r \in SeqsUpTo(MssqlKeys, MaxRows)}
    \cup {[cols |-> FALSE, rows |-> << <<"o1", "item1">> >>]}

AzureFrames == {[cols |-> TRUE, rows |-> r] : r \in SeqsUpTo(AzureKeys, MaxRows)}

\* The writer runs start on empty sinks, the pipeline at rest.
InitWriter ==
    /\ InitApi
    /\ lastRun = [m \in Marketplaces |-> NoLastRun]
    /\ activities = << >>
    /\ mssql = [m \in Marketplaces |-> EmptyTable]
    /\ azure = EmptyTable
    /\ ctlPending = 0
    /\ ctlStatus = "none"
    /\ tasks = [t \in TaskIds |-> IdleTask]
    /\ reqs = [r \in ReqIds |-> IdleReq]
    /\ triggers = 0
    /\ manuals = 0
    /\ faults = 0
    /\ writers = [w \in WriterIds |-> IdleWriter]

WStart(w) ==
    /\ writers[w].pc = "idle"
    /\ \A v \in WriterIds : v < w => writers[v].pc # "idle"
    /\ \E mssql_df \in MssqlFrames, azure_df \in AzureFrames :
         writers' = [writers EXCEPT ![w] =
             [pc |-> "mssql_dedup", ws |-> WriterStart(UK, mssql_df, azure_df)]]
    /\ UNCHANGED <<mssql, azure, pipelineVars, apiVars>>

WMssqlDedup(w) ==
    /\ writers[w].pc = "mssql_dedup"
    /\ \E queryOk \in BOOLEAN :
         writers' = [writers EXCEPT ![w] =
             [pc |-> "mssql_append", ws |-> MssqlDedupStep(@.ws, mssql, queryOk)]]
    /\ UNCHANGED <<mssql, azure, pipelineVars, apiVars>>

WMssqlAppend(w) ==
    /\ writers[w].pc = "mssql_append"
    /\ \E nFail \in {0, TO_SQL_MAX_RETRIES} :
         LET a == MssqlAppendStep(writers[w].ws, mssql, nFail)
         IN  /\ writers' = [writers EXCEPT ![w] = [pc |-> "azure_dedup", ws |-> a.ws]]
             /\ mssql' = a.table
    /\ UNCHANGED <<azure, pipelineVars, apiVars>>

WAzureDedup(w) ==
    /\ writers[w].pc = "azure_dedup"
    /\ \E queryOk \in BOOLEAN :
         writers' = [writers EXCEPT ![w] =
             [pc |-> "azure_append", ws |-> AzureDedupStep(@.ws, azure, queryOk)]]
    /\ UNCHANGED <<mssql, azure, pipelineVars, apiVars>>

WAzureAppend(w) ==
    /\ writers[w].pc = "azure_append"
    /\ \E nFail \in {0, TO_SQL_MAX_RETRIES} :
         LET a == AzureAppendStep(writers[w].ws, azure, nFail)
         IN  /\ writers' = [writers EXCEPT ![w] =
                    [pc |-> "done",
                     ws |-> [a.ws EXCEPT !.results = Finalize(a.ws.results)]]]
             /\ azure' = a.table
    /\ UNCHANGED <<mssql, pipelineVars, apiVars>>

NextWriter ==
    \/ \E w \in WriterIds : WStart(w)
    \/ \E w \in WriterIds : WMssqlDedup(w)
    \/ \E w \in WriterIds : WMssqlAppend(w)
    \/ \E w \in WriterIds : WAzureDedup(w)
    \/ \E w \in WriterIds : WAzureAppend(w)

SpecWriter == InitWriter /\ [][NextWriter]_vars

(***************************************************************************)
(* The controller over any content of marketplace_last_run: no row, one    *)
(* row or both, each with no last_run, a time of the day before END_DATE,  *)
(* or END_DATE.                                                            *)
(***************************************************************************)
ControllerLastRuns ==
    InitialLastRuns \cup {Combine(EndDay - 1, SecondsPerDay - 1), END_DATE}

InitController ==
    /\ InitApiObjects
    /\ records \in SUBSET Marketplaces
    /\ lastRun \in {f \in [Marketplaces -> ControllerLastRuns] :
                       \A m \in Marketplaces \ records : f[m] = NoLastRun}
    /\ activities = << >>
    /\ mssql = [m \in Marketplaces |-> EmptyTable]
    /\ azure = EmptyTable
    /\ ctlPending = 0
    /\ ctlStatus = "none"
    /\ tasks = [t \in TaskIds |-> IdleTask]
    /\ reqs = [r \in ReqIds |-> IdleReq]
    /\ triggers = 0
    /\ manuals = 0
    /\ faults = 0
    /\ writers = [w \in WriterIds |-> IdleWriter]

NextController ==
    \/ ExternalTrigger
    \/ ControllerEmpty
    \/ ControllerCompleted
    \/ ControllerDispatch

SpecController == InitController /\ [][NextController]_vars

(***************************************************************************)
(* The chain under fair scheduling: the day fetch of one marketplace is    *)
(* under way, at any of the attempts self.retry allows, and Celery and the *)
(* web server go on running whatever is queued.                            *)
(***************************************************************************)
\* a day-fetch task whose attempts so far have failed
RetriedTask(marketplace_id, last_run, retries) ==
    LET w == DayWindowAfter(last_run)
    IN  [IdleTask EXCEPT !.pc = "queued",
                         !.marketplace_id = marketplace_id,
                         !.start_iso = IsoFormat(w.start),
                         !.end_iso = IsoFormat(w.end),
                         !.retries = retries]

\* The controller was started once and chained the last day of UK; IT is
\* already at END_DATE.
InitProgress ==
    /\ InitApi
    /\ lastRun = [m \in Marketplaces |->
                    IF m = UK THEN Combine(EndDay - 1, 43200) ELSE END_DATE]
    /\ activities = << >>
    /\ mssql = [m \in Marketplaces |-> EmptyTable]
    /\ azure = EmptyTable
    /\ ctlPending = 0
    /\ ctlStatus = "dispatched-one"
    /\ \E retries \in 0..TASK_MAX_RETRIES :
         tasks = [t \in TaskIds |->
                    IF t = 1 THEN RetriedTask(UK, lastRun[UK], retries)
                    ELSE IdleTask]
    /\ reqs = [r \in ReqIds |-> IdleReq]
    /\ triggers = 1
    /\ manuals = 0
    /\ faults = 0
    /\ writers = [w \in WriterIds |-> IdleWriter]

\* A Celery worker runs every queued task, and the web server answers every
\* request it was sent.
ProgressFairness ==
    /\ WF_vars(ControllerCompleted \/ ControllerDispatch)
    /\ \A t \in TaskIds : WF_vars(TaskSkip(t) \/ TaskPost(t) \/ TaskFinish(t))
    /\ \A r \in ReqIds : WF_vars(PostStart(r) \/ PostFinish(r))

SpecProgress == InitProgress /\ [][Next]_vars /\ ProgressFairness

(***************************************************************************)
(* The rate limiter under any sequence of acquire calls.  The callers are  *)
(* serialised by the limiter's lock, which is held across the sleep.       *)
(***************************************************************************)
dataVars == <<pipelineVars, mssql, azure, writers, records, repairVars,
              transformVars, itemVars>>

InitData ==
    /\ records = Marketplaces
    /\ lastRun = [m \in Marketplaces |-> NoLastRun]
    /\ activities = << >>
    /\ mssql = [m \in Marketplaces |-> EmptyTable]
    /\ azure = EmptyTable
    /\ ctlPending = 0
    /\ ctlStatus = "none"
    /\ tasks = [t \in TaskIds |-> IdleTask]
    /\ reqs = [r \in ReqIds |-> IdleReq]
    /\ triggers = 0
    /\ manuals = 0
    /\ faults = 0
    /\ writers = [w \in WriterIds |-> IdleWriter]
    /\ InitRepairIdle

InitBreaker ==
    /\ breaker = NewCircuitBreaker
    /\ inCall = FALSE
    /\ streak = 0
    /\ fetch = NewItemFetch

InitToken ==
    /\ workers = [w \in WorkerIds |-> IdleWorker]
    /\ calls = 0
    /\ credsFile = Creds(0)
    /\ tokenLock = 0
    /\ last_token_refresh_time = 0
    /\ posts = << >>

InitLimiter ==
    /\ InitData
    /\ InitBreaker
    /\ InitToken
    /\ clock = 0
    /\ limiter \in {OrdersRateLimiter(0), OrderItemsRateLimiter(0)}
    /\ released = << >>

\* one caller passes through acquire and is released
LimiterAcquire(priority) ==
    /\ Len(released) < limiter.burst_limit + ExtraAcquires
    /\ LET got == acquire(limiter, clock, priority)
       IN  /\ limiter' = got.limiter
           /\ clock' = clock + got.wait_time
           /\ released' = Append(released, clock + got.wait_time)
    /\ UNCHANGED <<dataVars, breakerVars, tokenVars>>

\* time passes with no caller in acquire
TimePasses ==
    /\ clock < MaxTicks * TickMs
    /\ clock' = clock + TickMs
    /\ UNCHANGED <<dataVars, limiterVars, breakerVars, tokenVars>>

NextLimiter ==
    \/ \E priority \in Priorities : LimiterAcquire(priority)
    \/ TimePasses

SpecLimiter == InitLimiter /\ [][NextLimiter]_vars

(***************************************************************************)
(* The circuit breaker under any sequence of protected calls.              *)
(***************************************************************************)
InitBreakerSpec ==
    /\ InitData
    /\ InitBreaker
    /\ InitToken
    /\ clock = 0
    /\ limiter = OrdersRateLimiter(0)
    /\ released = << >>

\* call, up to the start of the protected function
CallEnter ==
    /\ ~inCall
    /\ LET admit == BreakerAdmit(breaker, clock)
       IN  /\ breaker' = admit.breaker
           /\ inCall' = ~admit.refused
    /\ UNCHANGED <<dataVars, clock, limiterVars, streak, fetch, tokenVars>>

\* call, from the return or the exception of the protected function
CallReturn(raises) ==
    /\ inCall
    /\ breaker' = IF raises THEN BreakerFailure(breaker, clock)
                            ELSE BreakerSuccess(breaker)
    /\ streak' = IF raises THEN streak + 1 ELSE 0
    /\ inCall' = FALSE
    /\ UNCHANGED <<dataVars, clock, limiterVars, fetch, tokenVars>>

\* time passes between two calls
BreakerTimePasses ==
    /\ ~inCall
    /\ clock < MaxBreakerTicks * BreakerTickMs
    /\ clock' = clock + BreakerTickMs
    /\ UNCHANGED <<dataVars, limiterVars, breakerVars, tokenVars>>

NextBreaker ==
    \/ CallEnter
    \/ \E raises \in BOOLEAN : CallReturn(raises)
    \/ BreakerTimePasses

SpecBreaker == InitBreakerSpec /\ [][NextBreaker]_vars

(***************************************************************************)
(* The item fetch: one step is one batch of fetch_order_items_batch.       *)
(***************************************************************************)
\* the status codes the orders of one batch are answered with
BatchStatuses(size) ==
    {[i \in 1..size |-> 200], [i \in 1..size |-> 429],
     [i \in 1..size |-> IF i = 1 THEN 429 ELSE 200]}

ItemBatch ==
    /\ fetch.batches < MaxBatches
    /\ \E statuses \in BatchStatuses(fetch.current_batch_size) :
         LET batch_size == fetch.current_batch_size
             func == ProcessOrderItemsBatch(statuses)
             got == call(breaker, clock, func.raised)
             counted == [fetch EXCEPT
                 !.batches = @ + 1,
                 !.throttled_batches =
                     IF \A i \in DOMAIN statuses : statuses[i] = 429
                     THEN @ + 1 ELSE 0]
         IN  /\ breaker' = got.breaker
             /\ fetch' =
                  IF got.raised
                  THEN [UpdateBatchSizeOnFailure(counted) EXCEPT
                           !.failed_orders = @ + batch_size,
                           !.consecutive_rate_limits = @ + 1]
                  ELSE [UpdateBatchSizeOnSuccess(counted, func.failed_orders, batch_size)
                        EXCEPT !.failed_orders = @ + func.failed_orders,
                               !.consecutive_rate_limits = 0]
    /\ UNCHANGED <<dataVars, clock, limiterVars, inCall, streak, tokenVars>>

NextItemFetch ==
    \/ ItemBatch
    \/ BreakerTimePasses

SpecItemFetch == InitBreakerSpec /\ [][NextItemFetch]_vars

(***************************************************************************)
(* The pool workers of one run in make_rate_limited_request.  The clock    *)
(* starts one cooldown after the epoch that last_token_refresh_time = 0    *)
(* stands for.                                                             *)
(***************************************************************************)
InitTokenSpec ==
    /\ InitData
    /\ InitBreaker
    /\ InitToken
    /\ clock = TOKEN_REFRESH_COOLDOWN * 1000
    /\ limiter = OrderItemsRateLimiter(TOKEN_REFRESH_COOLDOWN * 1000)
    /\ released = << >>

Statuses == {200, 401, 403, 429}

\* a worker calls make_rate_limited_request with the headers of the run
StartCall(w) ==
    /\ workers[w].pc \in {"idle", "done"}
    /\ calls < MaxCalls
    /\ calls' = calls + 1
    /\ workers' = [workers EXCEPT ![w] = [IdleWorker EXCEPT !.pc = "request"]]
    /\ UNCHANGED <<dataVars, clock, limiterVars, breakerVars, credsFile,
                   tokenLock, last_token_refresh_time, posts>>

\* self.session.request and the handling of its status code
HttpCall(w, status_code) ==
    /\ workers[w].pc = "request"
    /\ LET sent == [workers[w] EXCEPT !.http_calls = @ + 1]
       IN  workers' = [workers EXCEPT ![w] =
             IF status_code \in {401, 403}
             THEN IF sent.allow_token_refresh
                  THEN [sent EXCEPT !.pc = "refresh"]
                  ELSE [sent EXCEPT !.pc = "done", !.outcome = "auth_failed"]
             ELSE IF status_code = 429
             THEN [sent EXCEPT !.pc = "done", !.outcome = "rate_limited"]
             ELSE [sent EXCEPT !.pc = "done", !.outcome = "response"]]
    /\ UNCHANGED <<dataVars, clock, limiterVars, breakerVars, calls, credsFile,
                   tokenLock, last_token_refresh_time, posts>>

\* the retried call after a refresh that succeeded
Retried(worker, access_token) ==
    [worker EXCEPT !.pc = "request", !.access_token = access_token,
                   !.allow_token_refresh = RetryAllowsRefresh]

\* _refresh_token_and_retry: current_time and the cooldown check
RefreshStart(w) ==
    /\ workers[w].pc = "refresh"
    /\ LET entered == [workers[w] EXCEPT !.refreshes = @ + 1, !.current_time = clock]
       IN  workers' = [workers EXCEPT ![w] =
             IF RecentlyRefreshed(clock, last_token_refresh_time)
             THEN [entered EXCEPT !.pc = "cooldown_read"]
             ELSE [entered EXCEPT !.pc = "lock_wait"]]
    /\ UNCHANGED <<dataVars, clock, limiterVars, breakerVars, calls, credsFile,
                   tokenLock, last_token_refresh_time, posts>>

\* the token was refreshed recently: creds.json is read without the lock
CooldownRead(w) ==
    /\ workers[w].pc = "cooldown_read"
    /\ LET creds == ReadCreds(credsFile)
           seen == [workers[w] EXCEPT !.read = credsFile]
       IN  workers' = [workers EXCEPT ![w] =
             IF creds.ok THEN Retried(seen, creds.access_token)
             ELSE [seen EXCEPT !.pc = "lock_wait"]]
    /\ UNCHANGED <<dataVars, clock, limiterVars, breakerVars, calls, credsFile,
                   tokenLock, last_token_refresh_time, posts>>

\* with self.token_refresh_lock, and the check repeated under the lock
LockAcquire(w) ==
    /\ workers[w].pc = "lock_wait"
    /\ tokenLock = 0
    /\ LET creds == ReadCreds(credsFile)
           recent == RecentlyRefreshed(workers[w].current_time, last_token_refresh_time)
       IN  IF recent /\ creds.ok
           THEN /\ workers' = [workers EXCEPT ![w] =
                      Retried([@ EXCEPT !.read = credsFile], creds.access_token)]
                /\ UNCHANGED tokenLock
           ELSE /\ workers' = [workers EXCEPT ![w] =
                      [@ EXCEPT !.pc = "post",
                                !.read = IF recent THEN credsFile ELSE @]]
                /\ tokenLock' = w
    /\ UNCHANGED <<dataVars, clock, limiterVars, breakerVars, calls, credsFile,
                   last_token_refresh_time, posts>>

\* the credentials are read and the refresh request is posted
RefreshPost(w, status_code) ==
    /\ workers[w].pc = "post"
    /\ LET creds == ReadCreds(credsFile)
           failed == [workers[w] EXCEPT !.pc = "done", !.outcome = "auth_failed",
                                        !.read = credsFile]
       IN  IF ~creds.ok
           THEN /\ workers' = [workers EXCEPT ![w] = failed]
                /\ tokenLock' = 0
                /\ UNCHANGED posts
           ELSE /\ posts' = Append(posts, [time |-> clock, status_code |-> status_code])
                /\ IF status_code = 200
                   THEN /\ workers' = [workers EXCEPT ![w] =
                              [@ EXCEPT !.pc = "write", !.read = credsFile,
                                        !.access_token = Len(posts) + 1]]
                        /\ UNCHANGED tokenLock
                   ELSE /\ workers' = [workers EXCEPT ![w] = failed]
                        /\ tokenLock' = 0
    /\ UNCHANGED <<dataVars, clock, limiterVars, breakerVars, calls, credsFile,
                   last_token_refresh_time>>

\* open(creds_file_path, 'w') truncates the file
RefreshOpen(w) ==
    /\ workers[w].pc = "write"
    /\ credsFile' = EmptyFile
    /\ workers' = [workers EXCEPT ![w] = [@ EXCEPT !.pc = "dump"]]
    /\ UNCHANGED <<dataVars, clock, limiterVars, breakerVars, calls,
                   tokenLock, last_token_refresh_time, posts>>

\* json.dump, last_token_refresh_time = time.time(), and the retried call
RefreshDump(w) ==
    /\ workers[w].pc = "dump"
    /\ credsFile' = Creds(workers[w].access_token)
    /\ last_token_refresh_time' = clock
    /\ tokenLock' = 0
    /\ workers' = [workers EXCEPT ![w] = Retried(@, @.access_token)]
    /\ UNCHANGED <<dataVars, clock, limiterVars, breakerVars, calls, posts>>

TokenTimePasses ==
    /\ clock < TOKEN_REFRESH_COOLDOWN * 1000 + MaxTokenTicks * TokenTickMs
    /\ clock' = clock + TokenTickMs
    /\ UNCHANGED <<dataVars, limiterVars, breakerVars, tokenVars>>

NextToken ==
    \/ \E w \in WorkerIds : StartCall(w)
    \/ \E w \in WorkerIds : \E status_code \in Statuses : HttpCall(w, status_code)
    \/ \E w \in WorkerIds : RefreshStart(w)
    \/ \E w \in WorkerIds : CooldownRead(w)
    \/ \E w \in WorkerIds : LockAcquire(w)
    \/ \E w \in WorkerIds : \E status_code \in {200, 400} : RefreshPost(w, status_code)
    \/ \E w \in WorkerIds : RefreshOpen(w)
    \/ \E w \in WorkerIds : RefreshDump(w)
    \/ TokenTimePasses

SpecToken == InitTokenSpec /\ [][NextToken]_vars

\* the pool runs its workers, and the clock does not stop
SpecTokenFair == SpecToken /\ WF_vars(NextToken)

(***************************************************************************)
(* The anomaly repair (fix_purchase_date.py, FixPurchaseDate.post), query  *)
(* by query.  Every query and every deletion may raise; a deletion runs in *)
(* a transaction of its own sink.                                          *)
(***************************************************************************)
MaxRepairRows == 2

\* rows of amazon_api_<mkt>: bought on the day before END_DATE or on that
\* day; the conversion to local time keeps the date or moves it on by one
PurchaseRowChoices ==
    {[PurchaseDate |-> EndDay - 1, PurchaseDate_conversion |-> EndDay - 1],
     [PurchaseDate |-> EndDay, PurchaseDate_conversion |-> EndDay],
     [PurchaseDate |-> EndDay, PurchaseDate_conversion |-> EndDay + 1]}

\* rows of stg_tr_amazon_raw of one region
RawRowChoices ==
    {[data_fetch_Date |-> EndDay, CLEAN_DateTime |-> EndDay],
     [data_fetch_Date |-> EndDay, CLEAN_DateTime |-> EndDay + 1]}

TablesOf(choices) == {t \in SUBSET choices : Cardinality(t) <= MaxRepairRows}

Max(S) == CHOOSE x \in S : \A y \in S : y <= x

\* SELECT MAX(CAST(PurchaseDate AS DATE)) FROM amazon_api_<mkt>
MaxPurchaseDate(rows) ==
    IF rows = {} THEN NoDate ELSE Max({r.PurchaseDate : r \in rows})

\* SELECT MAX(CAST(data_fetch_Date AS DATE)) FROM stg_tr_amazon_raw WHERE Region = ...
MaxFetchDate(rows) ==
    IF rows = {} THEN NoDate ELSE Max({r.data_fetch_Date : r \in rows})

\* WHERE CAST(PurchaseDate_conversion AS DATE) > CAST(:max_date AS DATE)
AnomalousMssql(rows, max_date) == {r \in rows : r.PurchaseDate_conversion > max_date}

\* WHERE Region = :region AND CAST(CLEAN_DateTime AS DATE) > CAST(:max_date AS DATE)
AnomalousAzure(rows, max_date) == {r \in rows : r.CLEAN_DateTime > max_date}

\* "Check if both databases have no anomalies", with one clean sink enough.
NoAnomalies_Either(row_count_mssql, row_count_azure) ==
    row_count_mssql = 0 \/ row_count_azure = 0

\* "Check if both databases have no anomalies"
NoAnomalies(row_count_mssql, row_count_azure) ==
    row_count_mssql = 0 /\ row_count_azure = 0

\* last_run_date with the day of MAX(PurchaseDate) itself.
LastRunDate_SameDay(max_purchase_date_mssql) ==
    IsoFormat(Combine(max_purchase_date_mssql, SecondsPerDay - 1))

\* datetime.combine(max - timedelta(days=1), datetime.max.time())
\*     .replace(microsecond=0).strftime('%Y-%m-%dT%H:%M:%SZ')
LastRunDate(max_purchase_date_mssql) ==
    IsoFormat(Combine(max_purchase_date_mssql - 1, SecondsPerDay - 1))

\* the marketplace of the current turn of the loop
FixMarketplace == FixMarketplaces[fix.i]

\* continue, or the end of the loop
NextTurn(f) ==
    [f EXCEPT !.i = @ + 1,
              !.pc = IF f.i = Len(FixMarketplaces) THEN "summary" ELSE "max_dates"]

\* summary['marketplaces_with_errors'].append(...); continue
FixError(f, error) ==
    NextTurn([f EXCEPT !.log[FixMarketplaces[f.i]].outcome = "error",
                       !.log[FixMarketplaces[f.i]].error = error])

\* everything but lastRun and the repair's own state
repairFrame == <<activities, mssql, azure, ctlPending, tasks, reqs, triggers,
                 manuals, faults, writers, clock, limiterVars, breakerVars,
                 tokenVars, records, ctlStatus, transformVars, itemVars>>

\* The controller has finished; the sink tables hold any of the rows above.
InitRepair ==
    /\ records \in {Marketplaces, {UK}}
    /\ lastRun = [m \in Marketplaces |-> IF m \in records THEN END_DATE ELSE NoLastRun]
    /\ activities = << >>
    /\ mssql = [m \in Marketplaces |-> EmptyTable]
    /\ azure = EmptyTable
    /\ ctlPending = 0
    /\ ctlStatus = "completed"
    /\ tasks = [t \in TaskIds |-> IdleTask]
    /\ reqs = [r \in ReqIds |-> IdleReq]
    /\ triggers = 0
    /\ manuals = 0
    /\ faults = 0
    /\ writers = [w \in WriterIds |-> IdleWriter]
    /\ clock = 0
    /\ limiter = OrdersRateLimiter(0)
    /\ released = << >>
    /\ InitBreaker
    /\ InitToken
    /\ purchaseRows \in [Marketplaces -> TablesOf(PurchaseRowChoices)]
    /\ rawRows \in [Marketplaces -> TablesOf(RawRowChoices)]
    /\ fix = IdleFix
    /\ InitTransformIdle

\* post: the two engines are created, or the answer is 500
FixPost ==
    /\ fix.pc = "idle"
    /\ \E connected \in BOOLEAN :
         fix' = IF connected THEN [fix EXCEPT !.pc = "max_dates"]
                ELSE [fix EXCEPT !.pc = "done", !.status_code = 500]
    /\ UNCHANGED <<lastRun, purchaseRows, rawRows, repairFrame>>

\* Step 1, MSSQL and Azure: the maxima
FixMaxDates ==
    /\ fix.pc = "max_dates"
    /\ \E mssqlRaises \in BOOLEAN, azureRaises \in BOOLEAN :
         LET m == FixMarketplace
             max_purchase_date_mssql == MaxPurchaseDate(purchaseRows[m])
             max_fetch_date_azure == MaxFetchDate(rawRows[m])
         IN  fix' =
               IF mssqlRaises THEN FixError(fix, "unexpected")
               ELSE IF max_purchase_date_mssql = NoDate
               THEN FixError(fix, "MSSQL: Could not get MAX(PurchaseDate)")
               ELSE IF azureRaises THEN FixError(fix, "Azure query failed")
               ELSE IF max_fetch_date_azure = NoDate
               THEN FixError(fix, "Azure: Could not get MAX(data_fetch_Date)")
               ELSE [fix EXCEPT !.pc = "counts",
                         !.log[m].max_purchase_date_mssql = max_purchase_date_mssql,
                         !.log[m].max_fetch_date_azure = max_fetch_date_azure]
    /\ UNCHANGED <<lastRun, purchaseRows, rawRows, repairFrame>>

\* Step 2, MSSQL and Azure: the anomalous rows are counted
FixCounts ==
    /\ fix.pc = "counts"
    /\ \E mssqlRaises \in BOOLEAN, azureRaises \in BOOLEAN :
         LET m == FixMarketplace
             row_count_mssql ==
                 Cardinality(AnomalousMssql(purchaseRows[m],
                                            fix.log[m].max_purchase_date_mssql))
             row_count_azure ==
                 Cardinality(AnomalousAzure(rawRows[m],
                                            fix.log[m].max_fetch_date_azure))
             counted == [fix EXCEPT !.log[m].row_count_mssql = row_count_mssql,
                                    !.log[m].row_count_azure = row_count_azure]
         IN  fix' =
               IF mssqlRaises THEN FixError(fix, "unexpected")
               ELSE IF azureRaises
               THEN FixError([fix EXCEPT !.log[m].row_count_mssql = row_count_mssql],
                             "Azure anomaly query failed")
               ELSE IF NoAnomalies(row_count_mssql, row_count_azure)
               THEN NextTurn([counted EXCEPT !.log[m].outcome = "no_anomalies"])
               ELSE [counted EXCEPT !.pc = "delete_mssql"]
    /\ UNCHANGED <<lastRun, purchaseRows, rawRows, repairFrame>>

\* Step 3a: DELETE FROM amazon_api_<mkt>, in one transaction
FixDeleteMssql ==
    /\ fix.pc = "delete_mssql"
    /\ LET m == FixMarketplace
       IN  IF fix.log[m].row_count_mssql > 0
           THEN \E raises \in BOOLEAN :
                  IF raises
                  THEN /\ fix' = FixError(fix, "MSSQL deletion failed")
                       /\ UNCHANGED purchaseRows
                  ELSE /\ fix' = [fix EXCEPT !.pc = "delete_azure"]
                       /\ purchaseRows' = [purchaseRows EXCEPT ![m] =
                              @ \ AnomalousMssql(@, fix.log[m].max_purchase_date_mssql)]
           ELSE /\ fix' = [fix EXCEPT !.pc = "delete_azure"]
                /\ UNCHANGED purchaseRows
    /\ UNCHANGED <<lastRun, rawRows, repairFrame>>

\* Step 3b: DELETE FROM stg_tr_amazon_raw, in one transaction
FixDeleteAzure ==
    /\ fix.pc = "delete_azure"
    /\ LET m == FixMarketplace
       IN  IF fix.log[m].row_count_azure > 0
           THEN \E raises \in BOOLEAN :
                  IF raises
                  THEN /\ fix' = FixError(fix, "Azure deletion failed")
                       /\ UNCHANGED rawRows
                  ELSE /\ fix' = [fix EXCEPT !.pc = "update"]
                       /\ rawRows' = [rawRows EXCEPT ![m] =
                              @ \ AnomalousAzure(@, fix.log[m].max_fetch_date_azure)]
           ELSE /\ fix' = [fix EXCEPT !.pc = "update"]
                /\ UNCHANGED rawRows
    /\ UNCHANGED <<lastRun, purchaseRows, repairFrame>>

\* Step 4: MarketplaceLastRun.objects.filter(...).update(last_run=last_run_date)
FixUpdate ==
    /\ fix.pc = "update"
    /\ LET m == FixMarketplace
           last_run_date == LastRunDate(fix.log[m].max_purchase_date_mssql)
       IN  IF m \in records
           THEN /\ lastRun' = [lastRun EXCEPT ![m] = ParseIsoUtc(last_run_date)]
                /\ fix' = NextTurn([fix EXCEPT !.log[m].outcome = "fixed"])
           ELSE /\ fix' = FixError(fix, "No marketplace_last_run entry found")
                /\ UNCHANGED lastRun
    /\ UNCHANGED <<purchaseRows, rawRows, repairFrame>>

\* the final summary: 200
FixSummary ==
    /\ fix.pc = "summary"
    /\ fix' = [fix EXCEPT !.pc = "done", !.status_code = 200]
    /\ UNCHANGED <<lastRun, purchaseRows, rawRows, repairFrame>>

NextRepair ==
    \/ FixPost
    \/ FixMaxDates
    \/ FixCounts
    \/ FixDeleteMssql
    \/ FixDeleteAzure
    \/ FixUpdate
    \/ FixSummary

SpecRepair == InitRepair /\ [][NextRepair]_vars

(***************************************************************************)
(* The transformer's pure steps (data_processor.py), each applied to one   *)
(* value drawn from a bounded set.  Amounts are counted in cents.          *)
(***************************************************************************)
MaxPriceUnits == 12

DigitChars == <<"0", "1", "2", "3", "4", "5", "6", "7", "8", "9">>
Digits == {DigitChars[i] : i \in 1..10}
Upper == {"B", "E", "G", "P", "R", "U"}
Spaces == {" "}

DigitVal(c) == (CHOOSE i \in 1..10 : DigitChars[i] = c) - 1

\* str(n) of an integer n >= 0
RECURSIVE Decimal(_)
Decimal(n) ==
    IF n < 10 THEN <<DigitChars[n + 1]>>
    ELSE Decimal(n \div 10) \o <<DigitChars[(n % 10) + 1]>>

\* int(text) of a run of digits, 0 for none
RECURSIVE IntOf(_)
IntOf(text) ==
    IF text = << >> THEN 0
    ELSE 10 * IntOf(SubSeq(text, 1, Len(text) - 1)) + DigitVal(text[Len(text)])

\* the characters of a piece of text as one str
RECURSIVE Join(_)
Join(text) == IF text = << >> THEN "" ELSE Head(text) \o Join(Tail(text))

\* the index after the longest run of characters of S that starts at i
RECURSIVE RunEnd(_, _, _)
RunEnd(text, i, S) ==
    IF i <= Len(text) /\ text[i] \in S THEN RunEnd(text, i + 1, S) ELSE i

\* str.strip()
RECURSIVE Strip(_)
Strip(text) ==
    IF text = << >> THEN text
    ELSE IF Head(text) \in Spaces THEN Strip(Tail(text))
    ELSE IF text[Len(text)] \in Spaces THEN Strip(SubSeq(text, 1, Len(text) - 1))
    ELSE text

\* float(amount), in cents, of a text -?[0-9]+\.?[0-9]* with at most two
\* decimals
FloatOf(text) ==
    LET negative == text # << >> /\ Head(text) = "-"
        first == IF negative THEN 2 ELSE 1
        dot == RunEnd(text, first, Digits)
        units == IntOf(SubSeq(text, first, dot - 1))
        decimals == SubSeq(text, dot + 1, Len(text))
        cents == IF Len(decimals) = 0 THEN 0
                 ELSE IF Len(decimals) = 1 THEN 10 * IntOf(decimals)
                 ELSE IntOf(SubSeq(decimals, 1, 2))
    IN  (IF negative THEN -1 ELSE 1) * (100 * units + cents)

\* where -?[0-9]+\.?[0-9]* matches at index i of the text: the index after
\* the match, or 0 if it does not match there
NumberEnd(text, i) ==
    LET first == IF i <= Len(text) /\ text[i] = "-" THEN i + 1 ELSE i
        dot == RunEnd(text, first, Digits)
        after == IF dot <= Len(text) /\ text[dot] = "." THEN dot + 1 ELSE dot
    IN  IF dot = first THEN 0 ELSE RunEnd(text, after, Digits)

\* re.match(r'^(-?[0-9]+\.?[0-9]*)\s*([A-Z]{3})?$', value_str): the two
\* groups, or no match
PriceMatch(text) ==
    LET number_end == NumberEnd(text, 1)
        rest == RunEnd(text, number_end, Spaces)
    IN  IF number_end = 0 THEN [matched |-> FALSE, amount |-> << >>, currency |-> None]
        ELSE IF rest = Len(text) + 1
        THEN [matched |-> TRUE, amount |-> SubSeq(text, 1, number_end - 1),
              currency |-> None]
        ELSE IF rest + 2 = Len(text) /\ \A j \in rest..(rest + 2) : text[j] \in Upper
        THEN [matched |-> TRUE, amount |-> SubSeq(text, 1, number_end - 1),
              currency |-> Join(SubSeq(text, rest, rest + 2))]
        ELSE [matched |-> FALSE, amount |-> << >>, currency |-> None]

\* re.findall(r'-?[0-9]+\.?[0-9]*', value_str)[0], or no text
FirstNumber(text) ==
    LET starts == {i \in 1..Len(text) : NumberEnd(text, i) # 0}
        i == CHOOSE j \in starts : \A k \in starts : j <= k
    IN  IF starts = {} THEN << >> ELSE SubSeq(text, i, NumberEnd(text, i) - 1)

\* re.search(r'[A-Z]{3}', value_str), '' if there is none
FirstCurrency(text) ==
    LET starts == {i \in 1..(Len(text) - 2) : \A j \in i..(i + 2) : text[j] \in Upper}
        i == CHOOSE j \in starts : \A k \in starts : j <= k
    IN  IF starts = {} THEN "" ELSE Join(SubSeq(text, i, i + 2))

\* currency = match.group(2); currency_values.append(currency)
MatchedCurrency(currency) == currency

\* the body of the loop over df[field] in _split_pricing_columns
SplitPrice(value) ==
    IF value = NaNCell \/ value = << >>
    THEN [Amount |-> 0, CurrencyCode |-> "USD"]
    ELSE LET value_str == Strip(value)
             match == PriceMatch(value_str)
             number == FirstNumber(value_str)
         IN  IF match.matched
             THEN [Amount |-> FloatOf(match.amount),
                   CurrencyCode |-> MatchedCurrency(match.currency)]
             ELSE IF number # << >>
             THEN [Amount |-> FloatOf(number), CurrencyCode |-> FirstCurrency(value_str)]
             ELSE [Amount |-> 0, CurrencyCode |-> "USD"]

\* The raw cells: an amount A of up to MaxPriceUnits units, written with or
\* without decimals and with or without a minus sign, alone ("A"), followed
\* by a currency code ("A CCY", "ACCY") or after it ("CCY A").
DecimalChoices ==
    {[text |-> << >>, cents |-> 0],
     [text |-> <<".", "0", "0">>, cents |-> 0],
     [text |-> <<".", "0", "1">>, cents |-> 1],
     [text |-> <<".", "5">>, cents |-> 50],
     [text |-> <<".", "5", "0">>, cents |-> 50]}

CurrencyChoices ==
    {[text |-> <<"G", "B", "P">>, code |-> "GBP"],
     [text |-> <<"E", "U", "R">>, code |-> "EUR"]}

PriceForms == {"A", "A CCY", "ACCY", "CCY A"}

PriceUnits == {0, 5, MaxPriceUnits}

RawPrices ==
    [negative : BOOLEAN, units : PriceUnits, decimals : DecimalChoices,
     form : PriceForms, currency : CurrencyChoices]

\* the text A of a raw price and the amount it stands for, in cents
AmountText(raw) ==
    (IF raw.negative THEN <<"-">> ELSE << >>) \o Decimal(raw.units) \o raw.decimals.text

AmountOf(raw) ==
    (IF raw.negative THEN -1 ELSE 1) * (100 * raw.units + raw.decimals.cents)

\* the text of the cell
PriceText(raw) ==
    IF raw.form = "A" THEN AmountText(raw)
    ELSE IF raw.form = "A CCY" THEN AmountText(raw) \o <<" ">> \o raw.currency.text
    ELSE IF raw.form = "ACCY" THEN AmountText(raw) \o raw.currency.text
    ELSE raw.currency.text \o <<" ">> \o AmountText(raw)

\* everything but the transformer's values
transformFrame == <<lastRun, activities, mssql, azure, ctlPending, tasks, reqs,
                    triggers, manuals, faults, writers, clock, limiterVars,
                    breakerVars, tokenVars, records, ctlStatus, repairVars,
                    itemVars>>

\* _split_pricing_columns on a column of one cell
SplitPricingColumns ==
    /\ ~priceCell.split
    /\ \/ \E raw \in RawPrices :
            LET value == PriceText(raw)
                out == SplitPrice(value)
            IN  priceCell' = [value |-> value, raw |-> raw, split |-> TRUE,
                              Amount |-> out.Amount,
                              CurrencyCode |-> out.CurrencyCode]
       \/ \E value \in {NaNCell, << >>, <<" ">>, <<"G", "B", "P">>} :
            LET out == SplitPrice(value)
            IN  priceCell' = [value |-> value, raw |-> NoRawPrice, split |-> TRUE,
                              Amount |-> out.Amount,
                              CurrencyCode |-> out.CurrencyCode]
    /\ UNCHANGED <<vatRow, transformFrame>>

\* VAT_RATES: the rate of a sales channel in percent.  A 'Non-Amazon' row is
\* in the mask of every marketplace, and the last one of the dict wins.
VatChannels == {"Amazon.es", "Amazon.de", "Amazon.it", "Amazon.co.uk"}

VatRate(sales_channel) ==
    IF sales_channel = "Amazon.es" THEN 21
    ELSE IF sales_channel = "Amazon.de" THEN 19
    ELSE IF sales_channel = "Amazon.it" THEN 22
    ELSE 20

InMask(sales_channel) == sales_channel \in VatChannels \cup {"Non-Amazon"}

\* The amounts of a row of rate r are counted in parts of a cent such that
\* amount * r / 100 and amount * r / (100 + r) are whole numbers.
CentParts(r) == 100 * (100 + r)

Abs(x) == IF x < 0 THEN -x ELSE x

\* .round(2): to the nearest cent, a half to the even one
Round2(x, parts) ==
    LET q == x \div parts
        rest == x % parts
    IN  IF 2 * rest < parts THEN q * parts
        ELSE IF 2 * rest > parts THEN (q + 1) * parts
        ELSE IF q % 2 = 0 THEN q * parts ELSE (q + 1) * parts

\* zero_promo_mask
ZeroPromo(Promotional_Tax, PromotionDiscount_Amount) ==
    Promotional_Tax = 0 /\ PromotionDiscount_Amount = 0

\* _calculate_vat_vectorized on one row; the amounts come in cents
CalculateVatRow(row) ==
    LET r == VatRate(row.SalesChannel)
        parts == CentParts(r)
        taxed == row.ItemTax_Amount # 0
        promotion == row.PromotionDiscount_Amount * parts
        Promotional_Tax == IF taxed THEN row.PromotionDiscount_Amount * r * (100 + r)
                           ELSE 0
        Price == row.ItemPrice_Amount * parts + Promotional_Tax
        VAT == IF taxed THEN (Price \div (100 + r)) * r ELSE 0
        unit_price == IF ZeroPromo(Promotional_Tax, row.PromotionDiscount_Amount)
                      THEN Price - row.ItemTax_Amount * parts
                      ELSE Price - VAT
        item_total == Price - promotion - Promotional_Tax
    IN  IF InMask(row.SalesChannel)
        THEN [row EXCEPT !.calculated = TRUE, !.rate = IF taxed THEN r ELSE 0,
                         !.parts = parts,
                         !.Promotional_Tax = Round2(Promotional_Tax, parts),
                         !.Price = Round2(Price, parts),
                         !.VAT = VAT,
                         !.unit_price_vat_exclusive = Round2(unit_price, parts),
                         !.item_total = Round2(item_total, parts)]
        ELSE [row EXCEPT !.calculated = TRUE, !.parts = parts]

\* The merged rows: a sales channel and the three amounts, in cents.
MaxItemPrice == 1201

ItemPrices == {0, 1000, MaxItemPrice}
ItemTaxes == {0, 1, 48, 167, 200}
PromotionDiscounts == {0, 100, 150}
SalesChannels == VatChannels \cup {"Non-Amazon", "Amazon.com"}

MergedRows ==
    [SalesChannel : SalesChannels, ItemPrice_Amount : ItemPrices,
     ItemTax_Amount : ItemTaxes, PromotionDiscount_Amount : PromotionDiscounts,
     calculated : {FALSE}, rate : {0}, parts : {1}, Promotional_Tax : {0},
     Price : {0}, VAT : {0}, unit_price_vat_exclusive : {0}, item_total : {0}]

\* _calculate_vat_vectorized on a frame of one row
CalculateVat ==
    /\ ~vatRow.calculated
    /\ \E row \in MergedRows : vatRow' = CalculateVatRow(row)
    /\ UNCHANGED <<priceCell, transformFrame>>

\* The transformer starts with nothing split and nothing calculated.
InitTransform ==
    /\ InitApi
    /\ lastRun = [m \in Marketplaces |-> NoLastRun]
    /\ activities = << >>
    /\ mssql = [m \in Marketplaces |-> EmptyTable]
    /\ azure = EmptyTable
    /\ ctlPending = 0
    /\ ctlStatus = "none"
    /\ tasks = [t \in TaskIds |-> IdleTask]
    /\ reqs = [r \in ReqIds |-> IdleReq]
    /\ triggers = 0
    /\ manuals = 0
    /\ faults = 0
    /\ writers = [w \in WriterIds |-> IdleWriter]

NextTransform ==
    \/ SplitPricingColumns
    \/ CalculateVat

SpecTransform == InitTransform /\ [][NextTransform]_vars

(***************************************************************************)
(* Properties of the pipeline (Spec).                                      *)
(***************************************************************************)
EndOfDay(date) == Combine(date, SecondsPerDay - 1)

\* the day a last_run value stands for (the seed day when it is NULL)
LastRunDay(last_run) == DateOf(ParseLastRunOrSeed(last_run))

\* The step is the return of task t with a result ("ok"), after its response.
Returns(t) == tasks[t].pc = "waiting" /\ tasks'[t].pc = "ok"

\* C1: with no anomaly repair running, lastRun of a marketplace never
\* decreases, and a change of it is made by a fetch task of that marketplace
\* that succeeded for a day D and leaves lastRun = D at 23:59:59Z.
C1_MonotonicProgress ==
    [][\A m \in Marketplaces :
         /\ lastRun'[m] >= lastRun[m]
         /\ lastRun'[m] # lastRun[m] =>
              \E t \in TaskIds :
                 /\ Returns(t)
                 /\ tasks[t].marketplace_id = m
                 /\ lastRun'[m] = EndOfDay(tasks[t].start_iso.date)]_vars

\* C1 witness: a fetch task has succeeded for its day and lastRun is that
\* day's 23:59:59Z.
C1_Witness ==
    \E t \in TaskIds :
       /\ tasks[t].pc = "ok"
       /\ lastRun[tasks[t].marketplace_id] = EndOfDay(tasks[t].start_iso.date)

\* C2: when the writer run of the day reported that no sink succeeded,
\* the fetch task leaves lastRun unchanged.
C2_NoAdvanceWithoutSink ==
    [][\A t \in TaskIds :
         (Returns(t) /\ reqs[tasks[t].req].db_save = "failed")
            => lastRun'[tasks[t].marketplace_id] = lastRun[tasks[t].marketplace_id]]_vars

\* C3: a task whose start is not the day after lastRun, once past the token,
\* returns skipped without posting to the fetch endpoint and without changing
\* lastRun; a task posts only for the day after lastRun, and lastRun moves
\* one day at a time.
C3_AscendingNoGaps ==
    [][/\ \A t \in TaskIds :
            /\ tasks'[t].pc = "skipped" /\ tasks[t].pc # "skipped" =>
                 /\ tasks'[t].posts = tasks[t].posts
                 /\ reqs' = reqs
                 /\ lastRun' = lastRun
            /\ tasks'[t].posts # tasks[t].posts =>
                 tasks[t].start_iso.date = LastRunDay(lastRun[tasks[t].marketplace_id]) + 1
            /\ (/\ tasks[t].pc = "queued"
                /\ tasks[t].start_iso.date # LastRunDay(lastRun[tasks[t].marketplace_id]) + 1
                /\ tasks'[t].pc # "queued") =>
                 tasks'[t].pc \in {"skipped", "failed"}
       /\ \A m \in Marketplaces :
            lastRun'[m] # lastRun[m] => LastRunDay(lastRun'[m]) = LastRunDay(lastRun[m]) + 1]_vars

\* C3 witness: a task found its day already done and was skipped without a
\* single post, after another task had advanced lastRun to that day.
C3_Witness ==
    \E t \in TaskIds, u \in TaskIds :
       /\ tasks[t].pc = "skipped" /\ tasks[t].posts = 0
       /\ tasks[u].pc = "ok"
       /\ tasks[u].marketplace_id = tasks[t].marketplace_id
       /\ LastRunDay(lastRun[tasks[t].marketplace_id]) >= tasks[t].start_iso.date

\* The Activities of a marketplace that are in_progress.
InProgress(marketplace_id) ==
    {ref \in {<<k, i>> : k \in {x \in DOMAIN activities : x[1] = marketplace_id},
                         i \in 1..MaxReqs} :
        /\ ref[2] <= Len(activities[ref[1]])
        /\ ActivityRow(activities, ref).status = "in_progress"}

\* C4: every marketplace has at most one orders Activity in_progress.
C4_OneInProgressPerMarketplace ==
    \A m \in Marketplaces \cup {Unsupported} : Cardinality(InProgress(m)) <= 1

\* The requests of a marketplace that are between the start of the SP-API
\* fetch and the end of the write.
Running(marketplace_id) ==
    {r \in ReqIds : reqs[r].pc = "fetching" /\ reqs[r].marketplace_id = marketplace_id}

\* C5: at most one fetch execution runs for a marketplace at any time.
C5_OneFetchPerMarketplace ==
    \A m \in Marketplaces : Cardinality(Running(m)) <= 1

\* C6: no Activity is left in_progress by a finished request: every
\* in_progress Activity belongs to a request that is still being served.
C6_NoActivityLeftInProgress ==
    \A m \in Marketplaces \cup {Unsupported} :
       \A ref \in InProgress(m) :
          \E r \in ReqIds : reqs[r].pc = "fetching" /\ reqs[r].activity = ref

\* C7: when the SP-API returned 0 orders for the day, the task's run ends
\* with lastRun at that day's 23:59:59Z, the day's Activity completed and
\* database_saved false.
C7_EmptyDayCompletes ==
    [][\A t \in TaskIds :
         (Returns(t) /\ reqs[tasks[t].req].orders = 0) =>
            /\ lastRun'[tasks[t].marketplace_id] = EndOfDay(tasks[t].start_iso.date)
            /\ ActivityRow(activities', reqs[tasks[t].req].activity).status = "completed"
            /\ ~ActivityRow(activities', reqs[tasks[t].req].activity).database_saved]_vars

(***************************************************************************)
(* Properties of the writer (SpecWriter).                                  *)
(***************************************************************************)
\* every row of the batch has its natural key in the table
AllKeysPresent(rows, table) ==
    \A i \in 1..Len(rows) : Stored(table, <<rows[i][1], ToDb(rows[i][2])>>) > 0

\* C8: a run whose MSSQL batch has all its natural keys in the table, rows
\* without OrderItemId included, inserts nothing and reports success with
\* records_skipped equal to the size of the batch.
C8_RerunInsertsNothing ==
    \A f \in MssqlFrames :
       (f.cols /\ f.rows # << >> /\ AllKeysPresent(f.rows, mssql[UK])) =>
          LET run == SaveSimple(UK, f, [cols |-> TRUE, rows |-> << <<"o1", "SKU1">> >>],
                                mssql, azure, NoFaults)
          IN  /\ run.mssql = mssql
              /\ run.results.mssql_result = AllExistResult(Len(f.rows))

\* C9: whatever the interleaving of two runs, no natural key that has all
\* its parts is stored twice in a sink.
C9_NoKeyStoredTwice ==
    /\ \A k \in DOMAIN mssql[UK] : k[2] # NULL => mssql[UK][k] <= 1
    /\ \A k \in DOMAIN azure : k[2] # NULL => azure[k] <= 1

\* C10: a run whose existing-keys query failed for a sink appends nothing
\* to that sink and reports it failed with records_saved = 0, and the other
\* sink is still processed: the run goes on to the Azure sink and reports
\* a result for every non-empty Azure frame.
C10_QueryFailureAbortsSinkOnly ==
    /\ [][\A w \in WriterIds :
            /\ (/\ writers[w].pc = "mssql_append" /\ writers'[w].pc # "mssql_append"
                /\ <<"mssql", "dedup_failed">> \in writers[w].ws.results.errors) =>
                 /\ mssql' = mssql
                 /\ writers'[w].pc = "azure_dedup"
                 /\ ~writers'[w].ws.results.mssql_result.success
                 /\ writers'[w].ws.results.mssql_result.records_saved = 0
                 /\ writers'[w].ws.results.total_records_saved
                       = writers[w].ws.results.total_records_saved
            /\ (/\ writers[w].pc = "azure_append" /\ writers'[w].pc # "azure_append"
                /\ <<"azure", "dedup_failed">> \in writers[w].ws.results.errors) =>
                 /\ azure' = azure
                 /\ ~writers'[w].ws.results.azure_result.success
                 /\ writers'[w].ws.results.azure_result.records_saved = 0]_vars
    /\ [](\A w \in WriterIds :
            (/\ writers[w].pc = "done"
             /\ <<"mssql", "dedup_failed">> \in writers[w].ws.results.errors
             /\ writers[w].ws.azure_df.rows # << >>) =>
               /\ writers[w].ws.results.azure_result.present
               /\ writers[w].ws.results.errors \cap {"azure"} \X {"dedup_failed", "save_failed"} = {} =>
                    /\ writers[w].ws.results.azure_result.success
                    /\ \A i \in 1..Len(writers[w].ws.azure_df.rows) :
                          Stored(azure, writers[w].ws.azure_df.rows[i]) > 0)

\* C10 witness: a finished run whose MSSQL query failed, with nothing in the
\* MSSQL table, and whose Azure rows were saved.
C10_Witness ==
    \E w \in WriterIds :
       /\ writers[w].pc = "done"
       /\ <<"mssql", "dedup_failed">> \in writers[w].ws.results.errors
       /\ mssql[UK] = EmptyTable
       /\ writers[w].ws.results.azure_result.success
       /\ writers[w].ws.results.azure_result.records_saved > 0

\* The runs that are about to start: their frames, as handed to save_simple.
Starting == {w \in WriterIds : writers[w].pc = "mssql_dedup"}

\* the environment e with the MSSQL sink, resp. the Azure sink, in order
MssqlHealthy(e) == [e EXCEPT !.mq = TRUE, !.mf = 0]
AzureHealthy(e) == [e EXCEPT !.aq = TRUE, !.af = 0]

\* C11: whatever fails in one sink (its key columns missing, its
\* existing-keys query, its append on every attempt), the other sink gets
\* the same rows appended and reports the same result and success flag as in
\* the run where the first sink is in order.
C11_SinkIndependence ==
    \A w \in Starting : \A e \in PipelineFaults :
       LET f == writers[w].ws.mssql_df
           g == writers[w].ws.azure_df
           run == SaveSimple(UK, f, g, mssql, azure, e)
           mssqlOk == SaveSimple(UK, [f EXCEPT !.cols = TRUE], g, mssql, azure,
                                 MssqlHealthy(e))
           azureOk == SaveSimple(UK, f, [g EXCEPT !.cols = TRUE], mssql, azure,
                                 AzureHealthy(e))
       IN  /\ run.azure = mssqlOk.azure
           /\ run.results.azure_result = mssqlOk.results.azure_result
           /\ run.results.azure_success = mssqlOk.results.azure_success
           /\ run.mssql = azureOk.mssql
           /\ run.results.mssql_result = azureOk.results.mssql_result
           /\ run.results.mssql_success = azureOk.results.mssql_success

\* C11 witness: a finished run whose MSSQL append failed on every attempt
\* and whose Azure sink saved its rows and says so.
C11_Witness ==
    \E w \in WriterIds :
       /\ writers[w].pc = "done"
       /\ <<"mssql", "save_failed">> \in writers[w].ws.results.errors
       /\ writers[w].ws.results.azure_success
       /\ writers[w].ws.results.azure_result.records_saved > 0

\* C12: the result of a run has success = mssql_success or azure_success and
\* total_records_saved = the rows the run appended to the two sinks, for
\* empty and non-empty frames and every outcome of the sinks.
C12_ResultMatchesAppends ==
    \A w \in Starting : \A e \in PipelineFaults :
       LET run == SaveSimple(UK, writers[w].ws.mssql_df, writers[w].ws.azure_df,
                             mssql, azure, e)
       IN  /\ run.results.success
                = (run.results.mssql_success \/ run.results.azure_success)
           /\ run.results.total_records_saved
                = (BagCardinality(run.mssql[UK]) - BagCardinality(mssql[UK]))
                  + (BagCardinality(run.azure) - BagCardinality(azure))

(***************************************************************************)
(* Properties of the rate limiter (SpecLimiter).                           *)
(***************************************************************************)
\* the window the limit of each bucket is stated for: 60 s of getOrders,
\* 2 s of getOrderItems
WindowMs == IF limiter.rate_limit = ORDERS_MAX_REQUESTS_PER_SECOND THEN 60000 ELSE 2000

\* releases in the window of length WindowMs that opens with release i
ReleasedInWindow(i) ==
    Cardinality({j \in i..Len(released) : released[j] < released[i] + WindowMs})

\* C13: in any rolling window of length w a token bucket releases at most
\* burst + rate * w requests: 20 + 0.0167 * 60 getOrders calls in 60 seconds
\* and 30 + 0.5 * 2 getOrderItems calls in 2 seconds.
C13_TokenBucketBound ==
    \A i \in 1..Len(released) :
        ReleasedInWindow(i) * TokenUnit
            <= limiter.burst_limit * TokenUnit + limiter.rate_limit * WindowMs

(***************************************************************************)
(* Properties of the circuit breaker (SpecBreaker, SpecItemFetch).         *)
(***************************************************************************)
\* C14: the breaker moves from CLOSED to OPEN exactly when 10 protected
\* calls in a row have failed; a success in between restarts the count, so
\* failures separated by successes never open it.
C14_OpensAfterTenConsecutiveFailures ==
    [][breaker.state = "CLOSED" =>
          (breaker'.state = "OPEN" <=> streak' >= CIRCUIT_BREAKER_FAILURE_THRESHOLD)]_vars

\* C15: when the getOrderItems requests of a day's item fetch keep returning
\* 429, the breaker is open after 10 failures in a row (and stays so until
\* 300 seconds have passed since the last of them).
C15_ThrottlingOpensBreaker ==
    fetch.throttled_batches >= CIRCUIT_BREAKER_FAILURE_THRESHOLD =>
        \/ breaker.state = "OPEN"
        \/ /\ breaker.state = "HALF_OPEN"
           /\ clock - breaker.last_failure_time > CIRCUIT_BREAKER_RECOVERY_TIMEOUT * 1000

(***************************************************************************)
(* Properties of the token refresh (SpecToken, SpecTokenFair).             *)
(***************************************************************************)
\* workers whose call is being retried after _refresh_token_and_retry succeeded
RetriedWorkers ==
    {w \in WorkerIds : workers[w].refreshes = 1 /\ workers[w].http_calls = 1
                       /\ workers[w].pc = "request"}

CallBounded(w) ==
    /\ workers[w].refreshes <= 1
    /\ workers[w].http_calls <= workers[w].refreshes + 1
    /\ workers[w].pc = "done" /\ workers[w].refreshes = 1 /\ workers[w].http_calls = 1
          => workers[w].outcome = "auth_failed"
    /\ workers[w].pc = "request" /\ workers[w].http_calls = 1
          => ~workers[w].allow_token_refresh

\* C17: one call of make_rate_limited_request refreshes the token at most
\* once and retries the HTTP call exactly once after a refresh that
\* succeeded; a 401/403 on the retried call or a failed refresh ends the call
\* with an authentication failure, and every call ends.
C17_OneRefreshOneRetry ==
    /\ [](\A w \in WorkerIds : CallBounded(w))
    /\ \A w \in WorkerIds : (workers[w].pc = "refresh") ~> (workers[w].pc = "done")

\* a call that ended with an authentication failure on its retried HTTP call
C17_Witness ==
    \E w \in WorkerIds :
        /\ workers[w].pc = "done"
        /\ workers[w].http_calls = 2
        /\ workers[w].refreshes = 1
        /\ workers[w].outcome = "auth_failed"

\* C18: whoever reads the persisted credentials sees a complete record, the
\* previous one or the new one, with the expiry of the token it holds.
C18_ReadersSeeCompleteRecord ==
    \A w \in WorkerIds :
        /\ workers[w].read # EmptyFile
        /\ workers[w].read.access_token = workers[w].read.expires_at

(***************************************************************************)
(* Properties of the controller (SpecController).                          *)
(***************************************************************************)
\* 00:00:00Z of the day after lastRun, or of the day after the seed
NextStart(m) ==
    Combine(DateOf(IF lastRun[m] = NoLastRun THEN SEED_START_LAST_RUN
                   ELSE lastRun[m]) + 1, 0)

\* the marketplaces with a row whose next day is on or before END_DATE's
Eligible == {m \in records : DateOf(NextStart(m)) <= DateOf(END_DATE)}

\* the eligible marketplace with the least (nextStart, marketplaceId)
Earliest ==
    CHOOSE m \in Eligible :
        \A o \in Eligible \ {m} :
            \/ NextStart(m) < NextStart(o)
            \/ NextStart(m) = NextStart(o) /\ Rank(m) < Rank(o)

\* C19: a controller iteration that finds an eligible marketplace dispatches
\* exactly one fetch, for the eligible marketplace with the least
\* (nextStart, marketplaceId) and for the day that starts at its nextStart.
C19_DispatchesEarliest ==
    [][ctlPending' < ctlPending /\ Eligible # {} =>
          \E t \in TaskIds :
              /\ tasks[t].pc = "unused"
              /\ tasks'[t].pc = "queued"
              /\ tasks'[t].marketplace_id = Earliest
              /\ ParseIsoUtc(tasks'[t].start_iso) = NextStart(Earliest)
              /\ \A u \in TaskIds \ {t} : tasks'[u] = tasks[u]]_vars

\* a fetch was dispatched for IT, whose next day is earlier than UK's
C19_Witness ==
    /\ records = Marketplaces
    /\ NextStart(IT) < NextStart(UK)
    /\ \E t \in TaskIds : tasks[t].pc = "queued" /\ tasks[t].marketplace_id = IT

\* C20: the controller returns "completed", without a dispatch and without
\* queueing itself again, exactly when no row has a next day on or before
\* END_DATE; no fetch is dispatched for a later day and no lastRun lies
\* past END_DATE.
C20_CompletedIffNothingEligible ==
    /\ ctlStatus # "none" => (ctlStatus = "completed" <=> Eligible = {})
    /\ \A t \in TaskIds :
          tasks[t].pc # "unused" =>
              DateOf(ParseIsoUtc(tasks[t].start_iso)) <= DateOf(END_DATE)
    /\ \A m \in records : lastRun[m] <= END_DATE

\* every marketplace is at the date of END_DATE and the controller has
\* returned "completed"
AllDone ==
    /\ \A m \in records : DateOf(ParseLastRunOrSeed(lastRun[m])) = DateOf(END_DATE)
    /\ ctlStatus = "completed"

\* C21: once the controller has been started, with fair scheduling and
\* finitely many failed attempts per marketplace-day, every lastRun reaches
\* the date of END_DATE and the controller returns "completed".
C21_EventuallyCompleted == <>AllDone

\* request r leaves fetch_orders_with_items with a failure in this step
FetchFails(r) ==
    /\ reqs[r].pc = "fetching"
    /\ reqs'[r].pc # "fetching"
    /\ faults' > faults

\* task t reads a non-2xx answer in this step
ReadsFailure(t) ==
    /\ tasks[t].pc = "waiting"
    /\ tasks'[t].pc # "waiting"
    /\ reqs[tasks[t].req].pc = "done"
    /\ reqs[tasks[t].req].status_code \notin 200..299

TransformFails(r) ==
    /\ reqs[r].pc = "fetching"
    /\ reqs[r].auto_save
    /\ reqs'[r].pc = "done"
    /\ reqs'[r].status_code = 200
    /\ reqs'[r].db_save = "none"

\* task t reads, in this step, the answer of a request whose transform failed
ReadsTransformFailure(t) ==
    /\ tasks[t].pc = "waiting"
    /\ tasks'[t].pc # "waiting"
    /\ reqs[tasks[t].req].pc = "done"
    /\ reqs[tasks[t].req].status_code = 200
    /\ reqs[tasks[t].req].db_save = "none"

\* C23: when the transform fails because a required key (AmazonOrderId,
\* order_id) is missing, nothing is written to either sink, the Activity is
\* saved as failed, and lastRun is not advanced.
C23_TransformFailureFailsTheDay ==
    [][/\ \A r \in ReqIds :
            TransformFails(r) =>
                /\ mssql' = mssql
                /\ azure' = azure
                /\ ActivityRow(activities', reqs[r].activity).status = "failed"
       /\ \A t \in TaskIds :
            ReadsTransformFailure(t) => lastRun' = lastRun]_vars

\* the part of C23 that the endpoint keeps: no row reaches a sink
C23_NothingWritten ==
    [][\A r \in ReqIds : TransformFails(r) => mssql' = mssql /\ azure' = azure]_vars

QueriesAnswered(m) ==
    fix.log[m].error \notin
        {"unexpected", "MSSQL: Could not get MAX(PurchaseDate)",
         "Azure query failed", "Azure: Could not get MAX(data_fetch_Date)",
         "Azure anomaly query failed"}

\* anomalous rows were counted in at least one sink
AnomaliesFound(m) ==
    fix.log[m].row_count_mssql > 0 \/ fix.log[m].row_count_azure > 0

DeletionFailed(m) ==
    fix.log[m].error \in {"MSSQL deletion failed", "Azure deletion failed"}

\* no row of marketplace m is anomalous any more, in either sink
AnomaliesGone(m) ==
    /\ AnomalousMssql(purchaseRows[m], fix.log[m].max_purchase_date_mssql) = {}
    /\ AnomalousAzure(rawRows[m], fix.log[m].max_fetch_date_azure) = {}

C26_DeletionsAllOrNothing ==
    \A m \in Marketplaces :
        (fix.log[m].outcome # "" /\ fix.log[m].row_count_mssql > 0
                                 /\ fix.log[m].row_count_azure > 0) =>
            (AnomalousMssql(purchaseRows[m], fix.log[m].max_purchase_date_mssql) = {}
             <=> AnomalousAzure(rawRows[m], fix.log[m].max_fetch_date_azure) = {})

\* C27: a raw price "A CCY" or "ACCY" is split into Amount = A and
\* CurrencyCode = CCY; a raw price that is an amount only gets the
\* CurrencyCode USD; a leading minus sign of A stays in Amount.
C27_SplitsAmountAndCurrency ==
    (priceCell.split /\ priceCell.raw.form \in {"A", "A CCY", "ACCY"}) =>
        /\ priceCell.Amount = AmountOf(priceCell.raw)
        /\ priceCell.raw.form \in {"A CCY", "ACCY"} =>
               priceCell.CurrencyCode = priceCell.raw.currency.code
        /\ priceCell.raw.form = "A" => priceCell.CurrencyCode = "USD"

\* the part of C27 about cells that carry a currency code, and the amounts
C27_SplitsWhenCurrencyGiven ==
    (priceCell.split /\ priceCell.raw.form \in {"A", "A CCY", "ACCY"}) =>
        /\ priceCell.Amount = AmountOf(priceCell.raw)
        /\ priceCell.raw.form \in {"A CCY", "ACCY"} =>
               priceCell.CurrencyCode = priceCell.raw.currency.code

\* a calculated row of a VAT marketplace with ItemTax.Amount # 0
TaxedVatRow ==
    /\ vatRow.calculated
    /\ vatRow.SalesChannel \in VatChannels
    /\ vatRow.ItemTax_Amount # 0

\* |calculated_vat - Price * vat%| < 0.01
VatOfPrice ==
    Abs(vatRow.VAT * (100 + vatRow.rate) - vatRow.Price * vatRow.rate)
        < vatRow.parts * (100 + vatRow.rate)

\* unit_price(vat_exclusive) + VAT = Price, to the cent
ExclusivePlusVat ==
    Abs(vatRow.unit_price_vat_exclusive + vatRow.VAT - vatRow.Price) <= vatRow.parts

\* C28: in every transformed row of a VAT marketplace with ItemTax.Amount # 0,
\* calculated_vat is Price * vat% to less than 0.01, and
\* unit_price(vat_exclusive) + VAT is Price within rounding, also when
\* PromotionDiscount.Amount is 0.
C28_VatIdentity ==
    TaxedVatRow => VatOfPrice /\ ExclusivePlusVat

\* the parts of C28 that hold: VAT against Price in every taxed row, and the
\* sum in the rows with a promotion discount
C28_VatIdentityWithPromotion ==
    TaxedVatRow =>
        /\ VatOfPrice
        /\ vatRow.PromotionDiscount_Amount # 0 => ExclusivePlusVat

\* an orders Activity of the marketplace is in_progress
InProgressActivity(marketplace_id) ==
    \E k \in DOMAIN activities : \E i \in 1..Len(activities[k]) :
        /\ k[1] = marketplace_id
        /\ activities[k][i].status = "in_progress"

\* C29: the controller never dispatches a fetch for a marketplace while an
\* orders Activity of that marketplace is in_progress.
C29_NoDispatchWhileInProgress ==
    [][\A t \in TaskIds :
          (tasks[t].pc = "unused" /\ tasks'[t].pc = "queued") =>
              ~InProgressActivity(tasks'[t].marketplace_id)]_vars

\* C30: when two fetch tasks for the same marketplace and day have both read
\* a 2xx answer, lastRun of the marketplace has been written once, to
\* 23:59:59Z of that day: the later task found the window advanced and left
\* lastRun as it was.
C30_ConcurrentTasksAdvanceOnce ==
    [][\A t \in TaskIds : \A u \in TaskIds \ {t} :
          (/\ tasks[u].pc = "ok"
           /\ tasks[t].pc = "waiting"
           /\ tasks'[t].pc = "ok"
           /\ tasks[t].marketplace_id = tasks[u].marketplace_id
           /\ tasks[t].start_iso = tasks[u].start_iso) =>
              /\ lastRun'[tasks[t].marketplace_id] = lastRun[tasks[t].marketplace_id]
              /\ lastRun[tasks[t].marketplace_id] = ParseIsoUtc(tasks[t].end_iso)
              /\ DateOf(lastRun'[tasks[t].marketplace_id])
                     = DateOf(ParseIsoUtc(tasks[t].start_iso))]_vars

\* both tasks of one marketplace-day have ended with a 2xx answer, each
\* after a POST of its own
C30_Witness ==
    \E t \in TaskIds : \E u \in TaskIds \ {t} :
        /\ tasks[t].pc = "ok" /\ tasks[u].pc = "ok"
        /\ tasks[t].posts > 0 /\ tasks[u].posts > 0
        /\ tasks[t].marketplace_id = tasks[u].marketplace_id
        /\ tasks[t].start_iso = tasks[u].start_iso
        /\ lastRun[tasks[t].marketplace_id] = ParseIsoUtc(tasks[t].end_iso)

\* the recovery timeout has passed since the last failure
RecoveryDue ==
    /\ breaker.last_failure_time # NoFailureTime
    /\ clock - breaker.last_failure_time > CIRCUIT_BREAKER_RECOVERY_TIMEOUT * 1000

MaxOrders == 11

MAX_RETRIES == 3

MAX_RETRY_ROUNDS == 5

\* the numbers of orders a run is given
OrderCounts == {1, MaxOrders}

\* what the requests of one order are answered with, attempt by attempt
AnswerChoices ==
    {<<200, 200, 200>>, <<429, 200, 200>>, <<429, 429, 429>>,
     <<400, 200, 200>>, <<503, 503, 200>>}

\* the loop of fetch_single_order_items_with_retry from the given attempt
\* on: a result of fetch_single_order_items is returned at once, an
\* exception is retried unless it is a 400
RECURSIVE RetryLoop(_, _)
RetryLoop(answers, attempt) ==
    IF attempt >= MAX_RETRIES
    THEN [success |-> FALSE, attempts |-> attempt]
    ELSE LET result == FetchSingleOrderItems(answers[attempt + 1])
         IN  IF ~result.raised
             THEN [success |-> result.success, attempts |-> attempt + 1]
             ELSE IF answers[attempt + 1] = 400
             THEN [success |-> FALSE, attempts |-> attempt + 1]
             ELSE RetryLoop(answers, attempt + 1)

\* fetch_single_order_items_with_retry with the requests it makes counted
FetchWithRetryAttempts(answers) == RetryLoop(answers, 0)

\* the order ids of positions from..to of a list of orders numbered in order
OrdersFrom(from, to) == [i \in 1..(to - from + 1) |-> from + i - 1]

\* the members of a sequence of order ids
IdsOf(seq) == {seq[i] : i \in DOMAIN seq}

\* the sub-sequence of the order ids the predicate keeps
RECURSIVE KeepIds(_, _)
KeepIds(seq, keep) ==
    IF seq = << >> THEN << >>
    ELSE IF Head(seq) \in keep THEN <<Head(seq)>> \o KeepIds(Tail(seq), keep)
    ELSE KeepIds(Tail(seq), keep)

\* the end of the main pass: with failed orders the auto-retry pass starts,
\* without them the run returns
AfterMainPass(run) ==
    IF run.processed_orders < run.total_orders THEN run
    ELSE IF run.failed_orders = << >> THEN [run EXCEPT !.phase = "returned"]
    ELSE [run EXCEPT !.phase = "retry"]

\* the result of the auto-retry pass is taken over: the recovered orders
\* join the items and the failed orders are those the pass left failed
MergeRetry_KeepFailed(run, retry_items, remaining_failed) ==
    [run EXCEPT !.all_items = @ \cup retry_items]

MergeRetry(run, retry_items, remaining_failed) ==
    [run EXCEPT !.all_items = @ \cup retry_items,
                !.failed_orders = remaining_failed]

itemFrame == <<pipelineVars, mssql, azure, writers, records, repairVars,
               transformVars, clock, limiterVars, tokenVars, ordersReq,
               appendRun, getters, mintedFor>>

\* fetch_order_items_batch is called with its orders
ItemsStart ==
    /\ itemRun.phase = "idle"
    /\ \E total_orders \in OrderCounts :
         itemRun' = [itemRun EXCEPT !.phase = "main",
                                    !.total_orders = total_orders]
    /\ UNCHANGED <<itemFrame, breakerVars, retryRound>>

\* One batch of the main pass.  The batch's failures are listed in the
\* order of the batch; pool_fails is the executor failing to run the batch.
MainBatch ==
    /\ itemRun.phase = "main"
    /\ ~retryRound.active
    /\ LET batch_size == Min(fetch.current_batch_size,
                             itemRun.total_orders - itemRun.processed_orders)
           batch_end == itemRun.processed_orders + batch_size
           batch == OrdersFrom(itemRun.processed_orders + 1, batch_end)
       IN  \E pool_fails \in BOOLEAN, statuses \in BatchStatuses(batch_size) :
             LET func == ProcessOrderItemsBatch(statuses)
                 got == call(breaker, clock, func.raised \/ pool_fails)
                 batch_items ==
                     {batch[i] : i \in {j \in DOMAIN statuses :
                         FetchSingleOrderItemsWithRetry(statuses[j]).success}}
                 batch_failures == KeepIds(batch, IdsOf(batch) \ batch_items)
                 counted == [fetch EXCEPT
                     !.batches = @ + 1,
                     !.throttled_batches =
                         IF \A i \in DOMAIN statuses : statuses[i] = 429
                         THEN @ + 1 ELSE 0]
             IN  /\ breaker' = got.breaker
                 /\ fetch' =
                      IF got.raised
                      THEN [UpdateBatchSizeOnFailure(counted) EXCEPT
                               !.failed_orders = @ + batch_size,
                               !.consecutive_rate_limits = @ + 1]
                      ELSE [UpdateBatchSizeOnSuccess(counted, func.failed_orders, batch_size)
                            EXCEPT !.failed_orders = @ + func.failed_orders,
                                   !.consecutive_rate_limits = 0]
                 /\ itemRun' = AfterMainPass(
                      IF got.raised
                      THEN [itemRun EXCEPT !.processed_orders = batch_end,
                                           !.failed_orders = @ \o batch]
                      ELSE [itemRun EXCEPT !.processed_orders = batch_end,
                                           !.all_items = @ \cup batch_items,
                                           !.failed_orders = @ \o batch_failures])
    /\ UNCHANGED <<itemFrame, inCall, streak, retryRound>>

\* fetch_missing_order_items fetches the next failed order; after the last
\* one fetch_order_items_batch takes the result over and returns.
RetryOne ==
    /\ itemRun.phase = "retry"
    /\ \E answers \in AnswerChoices :
         LET order_ids == itemRun.failed_orders
             i == itemRun.retried + 1
             result == FetchWithRetryAttempts(answers)
             retry_items == IF result.success
                            THEN itemRun.retry_items \cup {order_ids[i]}
                            ELSE itemRun.retry_items
             remaining_failed == IF result.success
                                 THEN itemRun.remaining_failed
                                 ELSE Append(itemRun.remaining_failed, order_ids[i])
             looped == [itemRun EXCEPT
                 !.retried = i,
                 !.retry_items = retry_items,
                 !.remaining_failed = remaining_failed,
                 !.last = [order |-> order_ids[i], answers |-> answers,
                           attempts |-> result.attempts,
                           success |-> result.success]]
         IN  itemRun' =
               IF i < Len(order_ids) THEN looped
               ELSE [MergeRetry(looped, retry_items, remaining_failed) EXCEPT
                        !.phase = "returned", !.rounds = @ + 1]
    /\ UNCHANGED <<itemFrame, breakerVars, retryRound>>

NextOrderItems ==
    \/ ItemsStart
    \/ MainBatch
    \/ RetryOne

SpecOrderItems == InitBreakerSpec /\ [][NextOrderItems]_vars

\* the failures the retry loop is to repeat the request after
RetryableAnswer(answer) == answer \in {429, 503, 500}

\* the requests that lead to the first answer that is no retryable failure,
\* MAX_RETRIES when there is none among them
AttemptsDue(answers) ==
    LET settled == {i \in 1..MAX_RETRIES : ~RetryableAnswer(answers[i])}
    IN  IF settled = {} THEN MAX_RETRIES
        ELSE CHOOSE i \in settled : \A j \in settled : i <= j

\* C32: fetch_single_order_items_with_retry repeats an order's request
\* after a retryable failure until it succeeds or MAX_RETRIES requests have
\* been made, makes one request when the answer is a 400, and never makes
\* more than MAX_RETRIES requests.
C32_RetriesRetryableFailures ==
    itemRun.last.order # 0 =>
        /\ itemRun.last.attempts <= MAX_RETRIES
        /\ itemRun.last.answers[1] = 400 => itemRun.last.attempts = 1
        /\ itemRun.last.attempts = AttemptsDue(itemRun.last.answers)

(***************************************************************************)
(* fetch_all_orders (views.py): the request of one page with its retries   *)
(* and the backoff between them.  Times are in milliseconds.               *)
(***************************************************************************)
MaxPages == 2

BASE_RETRY_DELAY == 5
MAX_RETRY_DELAY == 600

\* JITTER_RANGE = 0.2, in hundredths
JITTER_RANGE == 20

\* random.random() * 2 - 1 lies in [-1, 1): its values here, in tenths
JitterTenths == {-10, 0, 9}

\* the Retry-After headers of a 429, in seconds
RetryAfters == {1, 60, 700}

\* what a request for a page of orders is answered with
OrdersAnswers == {200, 429, 500}

Pow2(n) == IF n = 0 THEN 1 ELSE IF n = 1 THEN 2 ELSE 4

Largest(a, b) == IF a >= b THEN a ELSE b

\* The sleep before the next attempt: exponential from the base delay, at
\* least Retry-After when the error carries one, then jitter, then the
\* bounds of one second and MAX_RETRY_DELAY.
OrdersRetryDelay(attempt, has_retry_after, retry_after, jitter) ==
    LET base == BASE_RETRY_DELAY * 1000 * Pow2(attempt - 1)
        retry_delay == IF has_retry_after
                       THEN Largest(base, retry_after * 1000) ELSE base
        jittered == retry_delay + (retry_delay * JITTER_RANGE * jitter) \div 1000
    IN  Min(MAX_RETRY_DELAY * 1000, Largest(1000, jittered))

ordersFrame == <<pipelineVars, mssql, azure, writers, records, repairVars,
                 transformVars, breakerVars, tokenVars, itemRun, retryRound,
                 appendRun, getters, mintedFor>>

\* fetch_all_orders is called
OrdersStart ==
    /\ ordersReq.state = "idle"
    /\ ordersReq' = [ordersReq EXCEPT !.state = "ready", !.page = 1, !.attempt = 1]
    /\ UNCHANGED <<ordersFrame, clock, limiterVars>>

\* One attempt of the page's request: the rate limiter is passed, the
\* request is issued and answered; after an error the loop sleeps and
\* tries again, or raises after the last attempt.
OrdersAttempt ==
    /\ ordersReq.state = "ready"
    /\ \E answer \in OrdersAnswers, retry_after \in RetryAfters,
          jitter \in JitterTenths, more \in BOOLEAN :
         LET got == acquire(limiter, clock, "normal")
             issued == clock + got.wait_time
             not_before == IF ordersReq.throttled_at = NoTime THEN 0
                           ELSE ordersReq.throttled_at + ordersReq.retry_after * 1000
             sent == [ordersReq EXCEPT !.issued_at = issued,
                                       !.not_before = not_before,
                                       !.throttled_at = NoTime,
                                       !.retry_after = 0]
             retry_delay == OrdersRetryDelay(ordersReq.attempt, answer = 429,
                                             retry_after, jitter)
         IN  /\ limiter' = got.limiter
             /\ released' = released
             /\ IF answer = 200
                THEN /\ clock' = issued
                     /\ ordersReq' =
                          IF more /\ ordersReq.page < MaxPages
                          THEN [sent EXCEPT !.page = @ + 1, !.attempt = 1]
                          ELSE [sent EXCEPT !.state = "returned"]
                ELSE IF ordersReq.attempt < MAX_RETRIES
                THEN /\ clock' = issued + retry_delay
                     /\ ordersReq' =
                          [sent EXCEPT
                             !.attempt = @ + 1,
                             !.throttled_at = IF answer = 429 THEN issued ELSE NoTime,
                             !.retry_after = IF answer = 429 THEN retry_after ELSE 0]
                ELSE /\ clock' = issued
                     /\ ordersReq' = [sent EXCEPT !.state = "raised"]
    /\ UNCHANGED ordersFrame

NextOrdersRetry ==
    \/ OrdersStart
    \/ OrdersAttempt

SpecOrdersRetry == InitBreakerSpec /\ [][NextOrdersRetry]_vars

\* C33: after a 429 with Retry-After = r, the next attempt of the same
\* request is not issued earlier than r seconds after the 429.
C33_WaitsRetryAfter ==
    ordersReq.issued_at # NoTime => ordersReq.issued_at >= ordersReq.not_before

\* C34: once a refresh has succeeded in a run, a call of
\* make_rate_limited_request that starts later sends its request with the
\* refreshed access token.
C34_LaterCallsCarryRefreshedToken ==
    [][\A w \in WorkerIds :
         (/\ workers[w].pc \in {"idle", "done"}
          /\ workers'[w].pc = "request"
          /\ last_token_refresh_time > 0
          /\ credsFile # EmptyFile)
         => workers'[w].access_token = credsFile.access_token]_vars

(***************************************************************************)
(* current_batch_size under any sequence of batches of the main pass and   *)
(* of retry rounds of _retry_failed_orders.                                *)
(***************************************************************************)
MaxSizeBatches == 62

\* the failed orders of a batch that returned
BatchFailureCounts == {0, 1}

sizeFrame == <<itemFrame, breaker, inCall, streak, itemRun>>

\* a batch of the main pass returned
BatchSucceeds ==
    /\ ~retryRound.active
    /\ fetch.batches < MaxSizeBatches
    /\ \E batch_failures \in BatchFailureCounts :
         fetch' = [UpdateBatchSizeOnSuccess(fetch, batch_failures,
                                            fetch.current_batch_size)
                   EXCEPT !.batches = @ + 1]
    /\ UNCHANGED <<sizeFrame, retryRound>>

\* a batch of the main pass raised
BatchFails ==
    /\ ~retryRound.active
    /\ fetch.batches < MaxSizeBatches
    /\ fetch' = [UpdateBatchSizeOnFailure(fetch) EXCEPT !.batches = @ + 1]
    /\ UNCHANGED <<sizeFrame, retryRound>>

\* a retry round starts: the batch size is kept aside and halved
RetryRoundStart ==
    /\ ~retryRound.active
    /\ retryRound' = [active |-> TRUE,
                      original_batch_size |-> fetch.current_batch_size]
    /\ fetch' = [fetch EXCEPT
                   !.current_batch_size = Largest(1, fetch.current_batch_size \div 2)]
    /\ UNCHANGED sizeFrame

\* the round's batches are done, or one of them raised: finally restores
\* the batch size
RetryRoundEnd ==
    /\ retryRound.active
    /\ fetch' = [fetch EXCEPT
                   !.current_batch_size = retryRound.original_batch_size]
    /\ retryRound' = NoRetryRound
    /\ UNCHANGED sizeFrame

NextBatchSize ==
    \/ BatchSucceeds
    \/ BatchFails
    \/ RetryRoundStart
    \/ RetryRoundEnd

SpecBatchSize == InitBreakerSpec /\ [][NextBatchSize]_vars

\* C35: current_batch_size starts at 10 and stays within [1, 30]; outside
\* retry rounds a batch changes it by at most 1; a retry round halves it
\* and the end of the round restores the size the round started from.
C35_BatchSizeBounded ==
    /\ fetch.current_batch_size = INITIAL_BATCH_SIZE
    /\ [][/\ fetch'.current_batch_size \in MIN_BATCH_SIZE..MAX_BATCH_SIZE
          /\ (~retryRound.active /\ ~retryRound'.active) =>
                 fetch'.current_batch_size - fetch.current_batch_size \in {-1, 0, 1}
          /\ (~retryRound.active /\ retryRound'.active) =>
                 retryRound'.original_batch_size = fetch.current_batch_size
          /\ (retryRound.active /\ ~retryRound'.active) =>
                 fetch'.current_batch_size = retryRound.original_batch_size]_vars

\* a retry round has halved the largest batch size
C35_Witness ==
    /\ retryRound.active
    /\ retryRound.original_batch_size = MAX_BATCH_SIZE
    /\ fetch.current_batch_size = MAX_BATCH_SIZE \div 2

\* C36: the failed orders of the main pass are tried again in retry rounds
\* until a round leaves no failed order or MAX_RETRY_ROUNDS rounds have
\* been made; the run returns the orders still failed.
C36_RetriesUntilDoneOrFiveRounds ==
    itemRun.phase = "returned" =>
        /\ itemRun.rounds <= MAX_RETRY_ROUNDS
        /\ \/ itemRun.failed_orders = << >>
           \/ itemRun.rounds = MAX_RETRY_ROUNDS

\* the order ids of a sequence are all different
Distinct(seq) == \A i, j \in DOMAIN seq : seq[i] = seq[j] => i = j

\* C38: when fetch_order_items_batch returns, every order of the input is
\* a key of items or listed in failed_orders, and never both; no order is
\* listed twice and nothing else is listed.
C38_EveryOrderInExactlyOneResult ==
    itemRun.phase = "returned" =>
        /\ \A order_id \in 1..itemRun.total_orders :
             (order_id \in itemRun.all_items) # (order_id \in IdsOf(itemRun.failed_orders))
        /\ itemRun.all_items \cup IdsOf(itemRun.failed_orders) = 1..itemRun.total_orders
        /\ Distinct(itemRun.failed_orders)

\* a run has returned after an auto-retry pass that recovered some orders
\* and left others failed, next to orders fetched in the main pass
C38_Witness ==
    /\ itemRun.phase = "returned"
    /\ itemRun.rounds = 1
    /\ itemRun.retry_items # {}
    /\ itemRun.failed_orders # << >>
    /\ itemRun.all_items \ itemRun.retry_items # {}

(***************************************************************************)
(* The append of one sink in save_simple (simple_db_save.py): the loop of  *)
(* _to_sql_with_retries attempt by attempt, then the result the sink       *)
(* reports.  events lists what the loop did: an attempt of to_sql that     *)
(* returned ("ok") or raised ("raised"), or a backoff sleep ("sleep").     *)
(***************************************************************************)
\* the frames that reach the append: de-duplicated and not empty
CleanFrames ==
    {DropDuplicates(df.rows) : df \in {f \in MssqlFrames : f.cols /\ f.rows # << >>}}

\* the attempts of to_sql that raised
RaisedAttempts(events) == Cardinality({i \in DOMAIN events : events[i] = "raised"})

appendFrame == <<pipelineVars, mssql, azure, writers, records, repairVars,
                 transformVars, clock, limiterVars, breakerVars, tokenVars,
                 itemRun, retryRound, ordersReq, getters, mintedFor>>

\* a sink has records to save; total_before is what the other sink saved
AppendStart ==
    /\ appendRun.pc = "idle"
    /\ \E df_clean \in CleanFrames, skipped \in 0..1, total_before \in 0..MaxRows :
         appendRun' = [IdleAppendRun EXCEPT
             !.pc = "to_sql",
             !.df_clean = df_clean,
             !.original_count = Len(df_clean) + skipped,
             !.total_before = total_before,
             !.total_records_saved = total_before,
             !.attempt = 1]
    /\ UNCHANGED appendFrame

\* the sink's report once the loop has returned or raised
SinkReport(run, events) ==
    LET a == SinkAppend(run.df_clean, run.original_count, NoResult,
                        run.table, RaisedAttempts(events))
    IN  [run EXCEPT !.pc = "reported",
                    !.events = events,
                    !.result = a.result,
                    !.error = a.error,
                    !.table = a.table,
                    !.total_records_saved = @ + a.saved]

\* One pass of the loop of _to_sql_with_retries: to_sql returns, or it
\* raises and the loop sleeps before the next attempt, or it raises in the
\* last attempt and the error is raised to save_simple.
ToSqlAttempt(raises) ==
    /\ appendRun.pc = "to_sql"
    /\ appendRun' =
         IF ~raises
         THEN SinkReport(appendRun, Append(appendRun.events, "ok"))
         ELSE IF appendRun.attempt < TO_SQL_MAX_RETRIES
         THEN [appendRun EXCEPT !.attempt = @ + 1,
                                !.events = @ \o <<"raised", "sleep">>]
         ELSE SinkReport(appendRun, Append(appendRun.events, "raised"))
    /\ UNCHANGED appendFrame

NextAppend ==
    \/ AppendStart
    \/ \E raises \in BOOLEAN : ToSqlAttempt(raises)

SpecAppend == InitBreakerSpec /\ [][NextAppend]_vars

\* C37: the append of a sink makes at most 3 attempts, sleeps only between
\* two attempts, and stops at the first attempt that succeeds; after a
\* third failure the error reaches save_simple, which reports the sink as
\* failed with records_saved = 0 and leaves total_records_saved as it was.
C37_AppendRetriesThenFails ==
    LET events == appendRun.events
        reported == appendRun.pc = "reported"
    IN  /\ Cardinality({i \in DOMAIN events : events[i] # "sleep"}) <= TO_SQL_MAX_RETRIES
        /\ \A i \in DOMAIN events :
             /\ events[i] = "sleep" =>
                  /\ i > 1 /\ events[i - 1] = "raised"
                  /\ i < Len(events) => events[i + 1] # "sleep"
                  /\ reported => i < Len(events)
             /\ events[i] = "ok" => (reported /\ i = Len(events))
             /\ (events[i] = "raised" /\ i < Len(events)) => events[i + 1] = "sleep"
        /\ (reported /\ RaisedAttempts(events) < TO_SQL_MAX_RETRIES) =>
             /\ events[Len(events)] = "ok"
             /\ appendRun.result.success
        /\ (reported /\ RaisedAttempts(events) = TO_SQL_MAX_RETRIES) =>
             /\ appendRun.error = "save_failed"
             /\ appendRun.result.present
             /\ ~appendRun.result.success
             /\ appendRun.result.records_saved = 0
             /\ appendRun.total_records_saved = appendRun.total_before

\* a sink has failed its third attempt after the other sink had saved rows
C37_Witness ==
    /\ appendRun.pc = "reported"
    /\ appendRun.events = <<"raised", "sleep", "raised", "sleep", "raised">>
    /\ appendRun.total_before > 0
    /\ ~appendRun.result.success

(***************************************************************************)
(* The anomaly repair while a fetch task is in flight.  Two tasks were     *)
(* dispatched for END_DATE's day of UK; the first has finished and moved   *)
(* last_run to END_DATE, the second waits for the answer of its request.   *)
(* The repair and the second task's completion interleave freely.          *)
(***************************************************************************)
\* the answers the task in flight reads
RewindAnswers == {200, 500}

InitRewind ==
    /\ records = Marketplaces
    /\ lastRun = [m \in Marketplaces |-> END_DATE]
    /\ activities = << >>
    /\ mssql = [m \in Marketplaces |-> EmptyTable]
    /\ azure = EmptyTable
    /\ ctlPending \in {0, 1}
    /\ ctlStatus = "dispatched-one"
    /\ LET w == DayWindowAfter(Combine(EndDay - 1, SecondsPerDay - 1))
           task == [IdleTask EXCEPT !.marketplace_id = UK,
                                    !.start_iso = IsoFormat(w.start),
                                    !.end_iso = IsoFormat(w.end),
                                    !.posts = 1]
       IN  /\ tasks = [t \in TaskIds |->
                  IF t = 1 THEN [task EXCEPT !.pc = "ok"]
                  ELSE IF t = 2 THEN [task EXCEPT !.pc = "waiting", !.req = 2]
                  ELSE IdleTask]
           /\ \E status_code \in RewindAnswers :
                reqs = [r \in ReqIds |->
                  IF r = 2
                  THEN [IdleReq EXCEPT !.pc = "done",
                                       !.marketplace_id = UK,
                                       !.start_date = IsoFormat(w.start),
                                       !.end_date = IsoFormat(w.end),
                                       !.auto_save = TRUE,
                                       !.status_code = status_code,
                                       !.task = 2]
                  ELSE IdleReq]
    /\ triggers = 2
    /\ manuals = 0
    /\ faults = 0
    /\ writers = [w \in WriterIds |-> IdleWriter]
    /\ clock = 0
    /\ limiter = OrdersRateLimiter(0)
    /\ released = << >>
    /\ InitBreaker
    /\ InitToken
    /\ purchaseRows \in {[m \in Marketplaces |-> IF m = UK THEN rows ELSE {}] :
                         rows \in TablesOf(PurchaseRowChoices)}
    /\ rawRows \in {[m \in Marketplaces |-> IF m = UK THEN rows ELSE {}] :
                    rows \in TablesOf(RawRowChoices)}
    /\ fix = IdleFix
    /\ InitTransformIdle

NextRewind ==
    \/ \E t \in TaskIds : TaskFinish(t)
    \/ ControllerCompleted
    \/ NextRepair

SpecRewind == InitRewind /\ [][NextRewind]_vars

\* the value the repair has written to last_run of a marketplace
RewoundTo(m) == ParseIsoUtc(LastRunDate(fix.log[m].max_purchase_date_mssql))

\* C39: when the repair has set last_run of a marketplace back while a
\* task for a later day of that marketplace is in flight, the task's
\* completion leaves last_run at the value the repair wrote, and the
\* controller's next choice is that marketplace with the day after that
\* value.
C39_CompletionKeepsRewoundLastRun ==
    [][\A t \in TaskIds :
         LET m == tasks[t].marketplace_id
         IN  (/\ tasks[t].pc = "waiting"
              /\ tasks'[t].pc = "ok"
              /\ fix.log[m].outcome = "fixed"
              /\ lastRun[m] = RewoundTo(m)
              /\ DateOf(ParseIsoUtc(tasks[t].start_iso)) > DateOf(RewoundTo(m)))
             => /\ lastRun'[m] = RewoundTo(m)
                /\ m \in Candidates'
                /\ ChosenNext' = m
                /\ DayWindowAfter(lastRun'[m]).start
                       = Combine(DateOf(RewoundTo(m)) + 1, 0)]_vars

(***************************************************************************)
(* get_access_token (tasks.py) of tasks that run at the same time, and the *)
(* connect endpoint (views.py, ConnectAmazonStoreView.post) they call.     *)
(* Task c fetches a marketplace of credential group c.  Access tokens are  *)
(* numbered in the order the LWA endpoint mints them.                      *)
(***************************************************************************)
MaxConnects == 3

\* the credential group a token was minted for, 0 for the token creds.json
\* held before
MintedGroup(access_token) ==
    IF access_token \in DOMAIN mintedFor THEN mintedFor[access_token] ELSE 0

connectFrame == <<pipelineVars, mssql, azure, writers, records, repairVars,
                  transformVars, clock, limiterVars, breakerVars, workers,
                  calls, tokenLock, last_token_refresh_time, posts, itemRun,
                  retryRound, ordersReq, appendRun>>

\* The task posts its group's credentials to /api/connect/ and the endpoint
\* posts them to the LWA token endpoint: a token is minted for the group, or
\* the answer is an error and get_access_token raises.
ConnectPost(c) ==
    /\ getters[c].pc \in {"idle", "returned", "raised"}
    /\ Len(mintedFor) < MaxConnects
    /\ \E status_code \in {200, 400} :
         IF status_code = 200
         THEN /\ mintedFor' = Append(mintedFor, c)
              /\ getters' = [getters EXCEPT ![c] =
                     [pc |-> "open", minted |-> Len(mintedFor) + 1, access_token |-> 0]]
         ELSE /\ getters' = [getters EXCEPT ![c] = [IdleGetter EXCEPT !.pc = "raised"]]
              /\ UNCHANGED mintedFor
    /\ UNCHANGED <<connectFrame, credsFile>>

\* save_credentials_to_file: open(creds_file_path, 'w') truncates the file
ConnectOpen(c) ==
    /\ getters[c].pc = "open"
    /\ credsFile' = EmptyFile
    /\ getters' = [getters EXCEPT ![c].pc = "dump"]
    /\ UNCHANGED <<connectFrame, mintedFor>>

\* json.dump, and the endpoint answers 200
ConnectDump(c) ==
    /\ getters[c].pc = "dump"
    /\ credsFile' = Creds(getters[c].minted)
    /\ getters' = [getters EXCEPT ![c].pc = "read"]
    /\ UNCHANGED <<connectFrame, mintedFor>>

\* the task reads creds.json and returns creds['access_token']; a file that
\* is being written does not parse and the task raises
TokenRead(c) ==
    /\ getters[c].pc = "read"
    /\ LET creds == ReadCreds(credsFile)
       IN  getters' = [getters EXCEPT ![c] =
             IF creds.ok
             THEN [@ EXCEPT !.pc = "returned", !.access_token = creds.access_token]
             ELSE [@ EXCEPT !.pc = "raised"]]
    /\ UNCHANGED <<connectFrame, credsFile, mintedFor>>

NextConnect ==
    \/ \E c \in GetterIds : ConnectPost(c)
    \/ \E c \in GetterIds : ConnectOpen(c)
    \/ \E c \in GetterIds : ConnectDump(c)
    \/ \E c \in GetterIds : TokenRead(c)

SpecConnect == InitBreakerSpec /\ [][NextConnect]_vars

\* C40: the access token get_access_token returns to a task was minted
\* from the credentials of the task's own credential group.
C40_TokenOfOwnCredentialGroup ==
    \A c \in GetterIds :
        getters[c].pc = "returned" => MintedGroup(getters[c].access_token) = c

=============================================================================
